---- MODULE Spec2Model ----
(***************************************************************************)
(* A model of BANG (binaryanalysis-ng):                                    *)
(*   - OffsetInputFile and the UnpackParser base class with its variants   *)
(*     (src/src/bang/UnpackParser.py), specification Spec;                 *)
(*   - the unpack generators of the parsers, specification UnpackSpec;     *)
(*   - main and the workers of maintenance/yara/yara_from_bang.py,         *)
(*     specification YaraSpec;                                             *)
(*   - write_info, is_valid_extension, the verifiers of bangfilescans.py,  *)
(*     the RPM and ELF parsers and the identifiers of yara_from_bang.py,   *)
(*     specifications InfoSpec, ExtSpec, ScanSpec, SvnSpec, RpmSpec,       *)
(*     ElfSpec and IdSpec;                                                 *)
(*   - the parsers built by with_size and with_parts, VariantSpec;         *)
(*   - generate_yara, the rule file names and the aggregation of           *)
(*     yara_from_source.py, specifications RuleSpec, NameSpec and AggSpec. *)
(***************************************************************************)
EXTENDS Integers, Sequences, FiniteSets, TLC

(***************************************************************************)
(* Bounds of the model.                                                    *)
(***************************************************************************)
\* most section headers of an ELF file
MaxSections == 2
\* most result directories, worker processes and distinct root hashes
MaxDirs == 2
MaxThreads == 2
MaxShas == 2
\* longest underlying file
MaxFileLen == 3
\* largest distance of one seek call
MaxSeek == 2
\* largest count of one read call
MaxRead == 2

\* 0x00, 0xFF and one byte that is no padding character
Bytes == {0, 1, 255}

Min(a, b) == IF a < b THEN a ELSE b

\* a Python bool, as a value that can stand next to "none"
PyBool(b) == IF b THEN "True" ELSE "False"

RECURSIVE SeqsUpTo(_, _)
\* all sequences over S of length at most n
SeqsUpTo(S, n) ==
    IF n = 0 THEN {<<>>}
    ELSE LET shorter == SeqsUpTo(S, n - 1)
         IN  shorter \cup {Append(s, x) : s \in {t \in shorter : Len(t) = n - 1}, x \in S}

VARIABLES
    \* ---- OffsetInputFile and the parser reading through it
    data,           \* the bytes of the underlying file (from_meta_directory.open_file)
    pos,            \* position of the underlying file object, infile.tell()
    offset,         \* OffsetInputFile.offset, the base offset
    fsize,          \* OffsetInputFile._size
    lastOp,         \* the last call made on the OffsetInputFile and what it returned
    consumed,       \* bytes the parser moved forward since parse_from_offset's seek
    kind,           \* the parser class
    pc,             \* position inside parse_from_offset
    calls,          \* the calls parse_from_offset has made, in order
    exc,            \* the exception that left parse_from_offset, "none" when none
    unpacked_size,  \* self.unpacked_size
    size_set,       \* whether self.unpacked_size has been assigned
    is_padding,     \* PaddingParser.is_padding
    info,           \* to_meta_directory.info
    info_written,   \* write_info has run
    children,       \* what iterating unpack() gave
    unpacked,       \* unpack() has been iterated
    \* ---- a parser's unpack() generator and the loop that iterates it
    ukind,          \* the parser class whose unpack() is iterated
    payload_format, \* RpmUnpackParser.payload_format
    sections,       \* ElfUnpackParser: self.data.header.section_headers
    ip,             \* the statement of the generator body that runs next
    gen_done,       \* the generator has raised StopIteration
    events,         \* the statements run so far and the enqueues, in order
    held,           \* the item the loop was handed and has not dealt with yet
    uqueue,         \* the scan queue the loop puts yielded items on
    \* ---- yara_from_bang.py
    dirs,           \* the result directories main found
    threads,        \* yara_env['threads']
    yaraqueue,      \* the JoinableQueue, as indexes into dirs
    unfinished,     \* the queue's count of items put and not yet task_done
    mpc,            \* where main is
    wpc,            \* where each worker process is
    wdir,           \* bang_directory of each worker, 0 when it has none
    root_sha256,    \* the local root_sha256 of each worker, 0 while unbound
    processed,      \* the local processed of each worker
    processlock,    \* the worker holding processlock, 0 when free
    processed_files,\* the shared dict, as the set of its keys
    task_done_calls,\* per directory, the task_done calls made for it
    yara_written,   \* per directory, what the rule loop ended with
    \* ---- write_info calls on one MetaDirectory
    md_info0,       \* to_meta_directory.info before the first write_info
    md_info,        \* to_meta_directory.info
    writers,        \* the parsers whose write_info has run, in order
    \* ---- a call of the class method is_valid_extension
    ext_cls,        \* the parser class, cls
    ext,            \* the argument ext, a string as the sequence of its characters
    ext_result,     \* what the call returned, "none" before the call
    \* ---- a call of one verifier of bangfilescans
    scan_file,      \* the file: its suffix and its lines
    scan_verifier,  \* the verifier that was called, "none" before the call
    scan_result,    \* what the call returned, or the exception it raised
    \* ---- RpmUnpackParser
    rpm_data,       \* self.data, what rpm.Rpm.from_io made of the file
    rpm_pc,         \* "new", then "parsed" or "raised"
    rpm_self,       \* self.compressor, self.compressor_seen, self.payload_format
    rpm_info,       \* the info of the MetaDirectory
    rpm_children,   \* the names of the children unpack gave
    rpm_unpacked,   \* unpack has been iterated
    \* ---- ElfUnpackParser.write_info
    elf_data,       \* self.data: the program headers and the section headers
    elf_written,    \* write_info has run, on md_info
    \* ---- process_directory of yara_from_bang.py on one ELF or Dex file
    yara_env,       \* yara_env, with its heuristics
    bang_label,     \* 'elf' or 'dex', the label of the file in the scantree
    strings,        \* the set strings
    functions,      \* the set functions
    variables,      \* the set variables
    emitted,        \* the identifiers added, each with the name it came from
    nsymbols,       \* the symbols, methods and fields the loops have seen
    generated,      \* the call of generate_yara, when the file got that far
    \* ---- a parser built by with_size or with_parts
    vp_kind,        \* the parser class
    vp_offset,      \* self.offset
    vp_parts,       \* ExtractingParser._parts, pairs of offset and length
    vp_unpacked_size, \* self.unpacked_size
    vp_pc,          \* "built", then "returned" when parse_from_offset has returned
    \* ---- a call of generate_yara
    rule_variant,   \* "bang" for yara_from_bang.py, "source" for yara_from_source.py
    rule_operator,  \* the operator the configuration asks for
    rule_heuristics,\* the parameter heuristics
    rule_groups,    \* the parameters strings, functions and variables
    rule_condition, \* the clauses written to the condition block, in order
    rule_written,   \* the rule file has been written
    \* ---- the loop of process_directory over the scantree of one package
    nm_package,     \* package_name
    nm_scantree,    \* bang_data['scantree'], the files in the order of the loop
    nm_index,       \* the files the loop has dealt with
    nm_writes,      \* the rule files generate_yara wrote, each with the sha256 of its binary
    \* ---- yara_from_source.py: the workers' rules, then main's loop over one language
    ag_env,         \* yara_env and the language of the loop
    ag_packages,    \* packages: per version the strings, functions and variables of its JSON
    ag_pc,          \* "extract", "aggregate", "union", "intersection", "done" or "raised"
    ag_index,       \* the versions the running loop has dealt with
    ag_is_start,    \* is_start
    ag_union,       \* all_strings_union, all_functions_union, all_variables_union
    ag_intersection,\* all_strings_intersection and the other two
    ag_rules        \* the calls of generate_yara, in order

parserVars == <<data, pos, offset, fsize, lastOp, consumed, kind, pc, calls, exc,
                unpacked_size, size_set, is_padding, info, info_written,
                children, unpacked>>

unpackVars == <<ukind, payload_format, sections, ip, gen_done, events, held, uqueue>>

yaraVars == <<dirs, threads, yaraqueue, unfinished, mpc, wpc, wdir, root_sha256, processed,
              processlock, processed_files, task_done_calls, yara_written>>

infoVars == <<md_info0, md_info, writers>>

\* the variables of the specifications that came after the first three
extVars == <<ext_cls, ext, ext_result>>

scanVars == <<scan_file, scan_verifier, scan_result>>

rpmVars == <<rpm_data, rpm_pc, rpm_self, rpm_info, rpm_children, rpm_unpacked>>

elfVars == <<elf_data, elf_written>>

idVars == <<yara_env, bang_label, strings, functions, variables, emitted, nsymbols,
           generated>>

laterVars == <<infoVars, extVars, scanVars, rpmVars, elfVars, idVars>>

coreVars == <<parserVars, unpackVars, yaraVars>>

variantVars == <<vp_kind, vp_offset, vp_parts, vp_unpacked_size, vp_pc>>

ruleVars == <<rule_variant, rule_operator, rule_heuristics, rule_groups, rule_condition,
              rule_written>>

\* the variables of the specifications that came last
nameVars == <<nm_package, nm_scantree, nm_index, nm_writes>>

aggVars == <<ag_env, ag_packages, ag_pc, ag_index, ag_is_start, ag_union, ag_intersection,
             ag_rules>>

lastVars == <<variantVars, ruleVars, nameVars, aggVars>>

vars == <<coreVars, laterVars, lastVars>>

(***************************************************************************)
(* OffsetInputFile                                                         *)
(***************************************************************************)
Whences == {"SEEK_SET", "SEEK_CUR", "SEEK_END"}

\* what the underlying file object does on seek(target, whence): the new
\* absolute position; a negative one makes the call raise
FileSeekTarget(target, whence) ==
    CASE whence = "SEEK_SET" -> target
      [] whence = "SEEK_CUR" -> pos + target
      [] whence = "SEEK_END" -> Len(data) + target

\* a seek that forgets the base offset
SeekTargetNoBase(p, whence) == FileSeekTarget(p, whence)

\* OffsetInputFile.seek: the position handed to the underlying file, which
\* is also what the call returns
SeekTarget(p, whence) ==
    IF whence = "SEEK_SET"
    THEN FileSeekTarget(p + offset, whence)
    ELSE FileSeekTarget(p, whence)

\* a tell that forgets the base offset
TellAbsolute == pos

\* OffsetInputFile.tell
Tell == pos - offset

\* a size that forgets the base offset
SizeNoBase == fsize

\* OffsetInputFile.size
Size == fsize - offset

\* infile.read(n) at absolute position p of file d: the bytes, and the position after
ReadBytes(d, p, n) == SubSeq(d, p + 1, Min(p + n, Len(d)))
PosAfterRead(d, p, n) == IF p >= Len(d) THEN p ELSE Min(p + n, Len(d))

NoOp == [op |-> "none", arg |-> 0, whence |-> "SEEK_SET", ret |-> 0, bytes |-> <<>>]

(***************************************************************************)
(* PaddingParser.parse                                                     *)
(***************************************************************************)
valid_padding_chars == {<<0>>, <<255>>}

RECURSIVE PaddingLoopOffByOne(_, _, _, _, _)
\* a loop that counts only the bytes read inside the loop that match
PaddingLoopOffByOne(d, p, c, padding_char, size) ==
    IF c = padding_char
    THEN PaddingLoopOffByOne(d, PosAfterRead(d, p, 1), ReadBytes(d, p, 1), padding_char,
                             IF ReadBytes(d, p, 1) = padding_char THEN size + 1 ELSE size)
    ELSE [pos |-> p, c |-> c, size |-> size]

RECURSIVE PaddingLoop(_, _, _, _, _)
\* while c == padding_char: c = self.infile.read(1); size += 1
PaddingLoop(d, p, c, padding_char, size) ==
    IF c = padding_char
    THEN PaddingLoop(d, PosAfterRead(d, p, 1), ReadBytes(d, p, 1), padding_char, size + 1)
    ELSE [pos |-> p, c |-> c, size |-> size]

\* a parse that reads the first byte and never enters the loop
PaddingParseOneByte(d, p0) ==
    LET c0 == ReadBytes(d, p0, 1)
    IN  [pos |-> PosAfterRead(d, p0, 1),
         size |-> IF c0 \in valid_padding_chars THEN 1 ELSE 0,
         is_padding |-> c0 \in valid_padding_chars, ispadding |-> FALSE, c |-> c0]

\* the whole of parse(), started at absolute position p0: the position it
\* leaves the file at, self.unpacked_size, self.is_padding, and the local
\* ispadding that line 217 assigns and nothing reads
PaddingParse(d, p0) ==
    LET c0 == ReadBytes(d, p0, 1)
        p1 == PosAfterRead(d, p0, 1)
    IN  IF c0 \in valid_padding_chars
        THEN LET r == PaddingLoop(d, p1, c0, c0, 0)
             IN  [pos |-> r.pos, size |-> r.size, is_padding |-> TRUE,
                  ispadding |-> (r.c = <<>>), c |-> r.c]
        ELSE [pos |-> p1, size |-> 0, is_padding |-> FALSE, ispadding |-> FALSE,
              c |-> c0]

(***************************************************************************)
(* The info record of a MetaDirectory: a dict, here a function on its keys *)
(***************************************************************************)
EmptyDict == [k \in {} |-> <<>>]

\* dict.setdefault(key, default), the dict afterwards
SetDefault(d, key, default) ==
    IF key \in DOMAIN d THEN d
    ELSE [k \in DOMAIN d \cup {key} |-> IF k = key THEN default ELSE d[k]]

\* d[key] = value
SetItem(d, key, value) ==
    [k \in DOMAIN d \cup {key} |-> IF k = key THEN value ELSE d[k]]

\* dict.update(other)
Update(d, other) ==
    [k \in DOMAIN d \cup DOMAIN other |-> IF k \in DOMAIN other THEN other[k] ELSE d[k]]

Kinds == {"base", "utmp", "padding"}

\* the class attributes pretty_name, labels and metadata of UtmpUnpackParser,
\* ExtractedParser and SynthesizingParser; the other classes have none
pretty_name(k) ==
    CASE k = "utmp" -> "utmp"
      [] k = "extracted" -> "extractedparser"
      [] k = "synthesizing" -> "synthesizingparser"
      [] OTHER -> "none"
labels(k) ==
    CASE k = "utmp" -> <<"utmp">>
      [] k = "synthesizing" -> <<"synthesized">>
      [] OTHER -> <<>>
metadata(k) == EmptyDict

\* a parser of kind k has the attributes write_info reads
HasInfoAttributes(k) == k = "utmp"

\* the info a MetaDirectory may hold before a parser writes to it
InitialInfos == {EmptyDict, [k \in {"labels"} |-> <<"synthesized">>]}

(***************************************************************************)
(* Initial state: a parser constructed on a file at some base offset       *)
(***************************************************************************)
ParserInit ==
    /\ data \in SeqsUpTo(Bytes, MaxFileLen)
    /\ offset \in 0..Len(data)
    /\ pos \in 0..Len(data)
    /\ fsize = Len(data)
    /\ lastOp = NoOp
    /\ consumed = 0
    /\ kind \in Kinds
    /\ pc = "new"
    /\ calls = <<>>
    /\ exc = "none"
    /\ unpacked_size = 0
    /\ size_set = FALSE
    /\ is_padding = FALSE
    /\ info \in InitialInfos
    /\ info_written = FALSE
    /\ children = <<>>
    /\ unpacked = FALSE

\* no parser is at work
ParserIdle ==
    /\ data = <<>>
    /\ offset = 0
    /\ pos = 0
    /\ fsize = 0
    /\ lastOp = NoOp
    /\ consumed = 0
    /\ kind = "none"
    /\ pc = "off"
    /\ calls = <<>>
    /\ exc = "none"
    /\ unpacked_size = 0
    /\ size_set = FALSE
    /\ is_padding = FALSE
    /\ info = EmptyDict
    /\ info_written = FALSE
    /\ children = <<>>
    /\ unpacked = FALSE

fileVars == <<data, offset, fsize>>
otherVars == <<unpackVars, yaraVars, laterVars, lastVars>>
resultVars == <<info, info_written, children, unpacked>>

(***************************************************************************)
(* Calls on the OffsetInputFile made by a format parser's parse()          *)
(***************************************************************************)
InParse == kind = "utmp" /\ pc = "parsing"

Seek(p, whence) ==
    /\ InParse
    /\ LET t == SeekTarget(p, whence)
       IN  IF t < 0
           THEN \* the file object raises; UtmpUnpackParser.parse wraps it
                /\ pc' = "raised"
                /\ exc' = "UnpackParserException"
                /\ lastOp' = [op |-> "seek", arg |-> p, whence |-> whence,
                              ret |-> -1, bytes |-> <<>>]
                /\ UNCHANGED <<pos, consumed>>
           ELSE /\ t <= MaxFileLen + MaxSeek
                /\ pos' = t
                /\ consumed' = consumed + (t - pos)
                /\ lastOp' = [op |-> "seek", arg |-> p, whence |-> whence,
                              ret |-> t, bytes |-> <<>>]
                /\ UNCHANGED <<pc, exc>>
    /\ UNCHANGED <<fileVars, kind, calls, unpacked_size, size_set, is_padding, resultVars>>
    /\ UNCHANGED otherVars

Read(n) ==
    /\ InParse
    /\ pos' = PosAfterRead(data, pos, n)
    /\ consumed' = consumed + Len(ReadBytes(data, pos, n))
    /\ lastOp' = [op |-> "read", arg |-> n, whence |-> "SEEK_SET",
                  ret |-> Len(ReadBytes(data, pos, n)), bytes |-> ReadBytes(data, pos, n)]
    /\ UNCHANGED <<fileVars, kind, pc, calls, exc, unpacked_size, size_set,
                   is_padding, resultVars>>
    /\ UNCHANGED otherVars

TellCall ==
    /\ InParse
    /\ lastOp' = [op |-> "tell", arg |-> 0, whence |-> "SEEK_SET",
                  ret |-> Tell, bytes |-> <<>>]
    /\ UNCHANGED <<fileVars, pos, consumed, kind, pc, calls, exc, unpacked_size,
                   size_set, is_padding, resultVars>>
    /\ UNCHANGED otherVars

\* fileno() hands back the descriptor of the underlying file, 3 here
FilenoCall ==
    /\ InParse
    /\ lastOp' = [op |-> "fileno", arg |-> 0, whence |-> "SEEK_SET",
                  ret |-> 3, bytes |-> <<>>]
    /\ UNCHANGED <<fileVars, pos, consumed, kind, pc, calls, exc, unpacked_size,
                   size_set, is_padding, resultVars>>
    /\ UNCHANGED otherVars

\* the size property is read
SizeCall ==
    /\ InParse
    /\ lastOp' = [op |-> "size", arg |-> 0, whence |-> "SEEK_SET",
                  ret |-> Size, bytes |-> <<>>]
    /\ UNCHANGED <<fileVars, pos, consumed, kind, pc, calls, exc, unpacked_size,
                   size_set, is_padding, resultVars>>
    /\ UNCHANGED otherVars

(***************************************************************************)
(* UnpackParser.parse_from_offset, one call at a time                      *)
(***************************************************************************)
\* self.infile.seek(0)
PfoSeek ==
    /\ pc = "new"
    /\ pos' = SeekTarget(0, "SEEK_SET")
    /\ consumed' = 0
    /\ lastOp' = [op |-> "seek", arg |-> 0, whence |-> "SEEK_SET",
                  ret |-> SeekTarget(0, "SEEK_SET"), bytes |-> <<>>]
    /\ calls' = Append(calls, "seek")
    /\ pc' = "seeked"
    /\ UNCHANGED <<fileVars, kind, exc, unpacked_size, size_set, is_padding, resultVars>>
    /\ UNCHANGED otherVars

\* self.parse() of the base class: raises "undefined parse method"
PfoParseBase ==
    /\ pc = "seeked" /\ kind = "base"
    /\ calls' = Append(calls, "parse")
    /\ pc' = "raised"
    /\ exc' = "UnpackParserException"
    /\ UNCHANGED <<fileVars, pos, lastOp, consumed, kind, unpacked_size, size_set,
                   is_padding, resultVars>>
    /\ UNCHANGED otherVars

\* self.parse() of a format parser is entered; it reads through self.infile
PfoParseEnter ==
    /\ pc = "seeked" /\ kind = "utmp"
    /\ calls' = Append(calls, "parse")
    /\ pc' = "parsing"
    /\ UNCHANGED <<fileVars, pos, lastOp, consumed, kind, exc, unpacked_size, size_set,
                   is_padding, resultVars>>
    /\ UNCHANGED otherVars

\* ... and returns
PfoParseReturn ==
    /\ InParse
    /\ pc' = "parsed"
    /\ UNCHANGED <<fileVars, pos, lastOp, consumed, kind, calls, exc, unpacked_size,
                   size_set, is_padding, resultVars>>
    /\ UNCHANGED otherVars

\* ... or finds the data is not its format
PfoParseRaise ==
    /\ InParse
    /\ pc' = "raised"
    /\ exc' = "UnpackParserException"
    /\ UNCHANGED <<fileVars, pos, lastOp, consumed, kind, calls, unpacked_size,
                   size_set, is_padding, resultVars>>
    /\ UNCHANGED otherVars

\* self.parse() of PaddingParser
PfoParsePadding ==
    /\ pc = "seeked" /\ kind = "padding"
    /\ LET r == PaddingParse(data, pos)
       IN  /\ pos' = r.pos
           /\ consumed' = consumed + (r.pos - pos)
           /\ unpacked_size' = r.size
           /\ is_padding' = r.is_padding
           /\ lastOp' = [op |-> "read", arg |-> 1, whence |-> "SEEK_SET",
                         ret |-> Len(r.c), bytes |-> r.c]
    /\ size_set' = TRUE
    /\ calls' = Append(calls, "parse")
    /\ pc' = "parsed"
    /\ UNCHANGED <<fileVars, kind, exc, resultVars>>
    /\ UNCHANGED otherVars

\* a parse_from_offset that goes on without calculate_unpacked_size
PfoCalculateSkipped ==
    /\ pc = "parsed"
    /\ pc' = "sized"
    /\ UNCHANGED <<fileVars, pos, lastOp, consumed, kind, calls, exc, unpacked_size,
                   size_set, is_padding, resultVars>>
    /\ UNCHANGED otherVars

\* self.calculate_unpacked_size(): the default assigns tell(), PaddingParser
\* overrides it with pass
PfoCalculate ==
    /\ pc = "parsed"
    /\ IF kind = "padding"
       THEN UNCHANGED <<unpacked_size, size_set>>
       ELSE /\ unpacked_size' = Tell
            /\ size_set' = TRUE
    /\ calls' = Append(calls, "calculate_unpacked_size")
    /\ pc' = "sized"
    /\ UNCHANGED <<fileVars, pos, lastOp, consumed, kind, exc, is_padding, resultVars>>
    /\ UNCHANGED otherVars

\* check_condition(self.unpacked_size > 0, ...)
check_condition_passes(size) == size > 0

PfoCheck ==
    /\ pc = "sized"
    /\ calls' = Append(calls, "check_condition")
    /\ IF check_condition_passes(unpacked_size)
       THEN pc' = "done" /\ UNCHANGED exc
       ELSE pc' = "raised" /\ exc' = "UnpackParserException"
    /\ UNCHANGED <<fileVars, pos, lastOp, consumed, kind, unpacked_size, size_set,
                   is_padding, resultVars>>
    /\ UNCHANGED otherVars

(***************************************************************************)
(* write_info and unpack of a parser whose parse_from_offset returned      *)
(***************************************************************************)
\* to_meta_directory.info['unpack_parser'] = self.pretty_name
record_parser(i, name) == SetItem(i, "unpack_parser", name)

\* to_meta_directory.info.setdefault('labels',[]).extend(self.labels)
add_labels(i, labs) ==
    LET defaulted == SetDefault(i, "labels", <<>>)
    IN  SetItem(defaulted, "labels", defaulted["labels"] \o labs)

\* to_meta_directory.info.setdefault('metadata',{}).update(self.metadata)
update_metadata(i, meta) ==
    LET defaulted == SetDefault(i, "metadata", EmptyDict)
    IN  SetItem(defaulted, "metadata", Update(defaulted["metadata"], meta))

\* UnpackParser.write_info with the attributes the object has at the call
write_info(i, name, labs, meta) ==
    update_metadata(add_labels(record_parser(i, name), labs), meta)

\* UnpackParser.write_info of a class that keeps its class attributes
BaseWriteInfo(k, i) == write_info(i, pretty_name(k), labels(k), metadata(k))

\* a write_info that adds nothing
PaddingWriteInfoNever(padding, i) == i

\* PaddingParser.write_info
PaddingWriteInfo(padding, i) ==
    IF padding
    THEN LET defaulted == SetDefault(i, "labels", <<>>)
         IN  SetItem(defaulted, "labels", Append(defaulted["labels"], "padding"))
    ELSE i

WriteInfo ==
    /\ pc = "done" /\ ~info_written
    /\ kind = "padding" \/ HasInfoAttributes(kind)
    /\ info' = IF kind = "padding" THEN PaddingWriteInfo(is_padding, info)
               ELSE BaseWriteInfo(kind, info)
    /\ info_written' = TRUE
    /\ UNCHANGED <<fileVars, pos, lastOp, consumed, kind, pc, calls, exc, unpacked_size,
                   size_set, is_padding, children, unpacked>>
    /\ UNCHANGED otherVars

\* ExtractingParser.write_info: pass
ExtractingWriteInfo(i) == i

\* UnpackParser.unpack: return []
BaseUnpack == <<>>

Unpack ==
    /\ pc = "done" /\ ~unpacked
    /\ children' = BaseUnpack
    /\ unpacked' = TRUE
    /\ UNCHANGED <<fileVars, pos, lastOp, consumed, kind, pc, calls, exc, unpacked_size,
                   size_set, is_padding, info, info_written>>
    /\ UNCHANGED otherVars

ParserNext ==
    \/ \E p \in (0 - MaxSeek)..MaxSeek, w \in Whences : Seek(p, w)
    \/ \E n \in 0..MaxRead : Read(n)
    \/ TellCall
    \/ FilenoCall
    \/ SizeCall
    \/ PfoSeek
    \/ PfoParseBase
    \/ PfoParseEnter
    \/ PfoParseReturn
    \/ PfoParseRaise
    \/ PfoParsePadding
    \/ PfoCalculate
    \/ PfoCheck
    \/ WriteInfo
    \/ Unpack


(***************************************************************************)
(* The unpack() generators.  A generator body is the list of its           *)
(* statements in source order; next() on the generator runs the body from  *)
(* where it stopped up to and including the next yield, or to its end.     *)
(***************************************************************************)
NoItem == [name |-> "none", idx |-> 0]
\* to_meta_directory, the MetaDirectory unpack() was called with
MdItself == [name |-> "to_meta_directory", idx |-> 0]
Stmt(op, item) == [op |-> op, item |-> item]

\* a body that hands the MetaDirectory over before committing its info
ExtractedBodyYieldFirst ==
    <<Stmt("yield", MdItself), Stmt("write_ahead", MdItself)>>

\* ExtractedParser.unpack
ExtractedBody ==
    <<Stmt("write_ahead", MdItself), Stmt("yield", MdItself)>>

\* SynthesizingParser.unpack
SynthesizingBody ==
    <<Stmt("write_ahead", MdItself), Stmt("yield", MdItself)>>

\* with meta_directory.unpack_regular_file(file_path) as (unpacked_md, outfile):
\*     outfile.write(...)
\*     yield unpacked_md
\* "enter" and "exit" are the entry to and the exit from the with block
UnpackRegularFileBlock(item) ==
    <<Stmt("enter", item), Stmt("write", item), Stmt("yield", item), Stmt("exit", item)>>

\* RpmUnpackParser.unpack
RpmBody(fmt) ==
    <<Stmt("decompress", NoItem)>> \o
    (IF fmt = "drpm"
     THEN UnpackRegularFileBlock([name |-> "drpm", idx |-> 1])
     ELSE UnpackRegularFileBlock([name |-> "cpio", idx |-> 1]))

\* header.name.startswith('.gresource'), on the section names of the model
StartsWithGresource(name) == name \in {".gresource", ".gresource.app"}

\* ElfUnpackParser.unpack: the test on one section header
Interesting(h) ==
    /\ h.type = "progbits"
    /\ \/ h.name \in {".gnu_debugdata", ".qtmimedatabase", ".BTF", ".BTF.ext"}
       \/ StartsWithGresource(h.name)

RECURSIVE ElfBodyFrom(_, _)
\* the for loop over the section headers, from header i on
ElfBodyFrom(hs, i) ==
    IF i > Len(hs) THEN <<>>
    ELSE (IF Interesting(hs[i])
          THEN UnpackRegularFileBlock([name |-> hs[i].name, idx |-> i])
          ELSE <<>>) \o ElfBodyFrom(hs, i + 1)

\* ElfUnpackParser.unpack
ElfBody(hs) == ElfBodyFrom(hs, 1)

Body ==
    CASE ukind = "extracted" -> ExtractedBody
      [] ukind = "synthesizing" -> SynthesizingBody
      [] ukind = "rpm" -> RpmBody(payload_format)
      [] ukind = "elf" -> ElfBody(sections)
      [] OTHER -> <<>>

RECURSIVE NextYield(_, _)
\* the index of the first yield of body b at or after i, Len(b) + 1 when none
NextYield(b, i) ==
    IF i > Len(b) THEN Len(b) + 1
    ELSE IF b[i].op = "yield" THEN i ELSE NextYield(b, i + 1)

SectionHeaders ==
    [type : {"progbits", "nobits"},
     name : {".gnu_debugdata", ".BTF", ".gresource.app", ".text"}]

UnpackIdle ==
    /\ ukind = "none"
    /\ payload_format = ""
    /\ sections = <<>>
    /\ ip = 1
    /\ gen_done = FALSE
    /\ events = <<>>
    /\ held = NoItem
    /\ uqueue = <<>>

\* unpack(md) has been called: the generator exists and nothing of it has run
UnpackInit ==
    /\ ukind \in {"extracted", "synthesizing", "rpm", "elf"}
    /\ payload_format \in (IF ukind = "rpm" THEN {"cpio", "drpm"} ELSE {""})
    /\ sections \in (IF ukind = "elf" THEN SeqsUpTo(SectionHeaders, MaxSections) ELSE {<<>>})
    /\ ip = 1
    /\ gen_done = FALSE
    /\ events = <<>>
    /\ held = NoItem
    /\ uqueue = <<>>

\* next() on the generator, called by the for loop that iterates unpack()
GenNext ==
    /\ ukind # "none" /\ ~gen_done /\ held = NoItem
    /\ LET j == NextYield(Body, ip)
       IN  /\ events' = events \o SubSeq(Body, ip, Min(j, Len(Body)))
           /\ ip' = j + 1
           /\ IF j <= Len(Body)
              THEN held' = Body[j].item /\ gen_done' = FALSE
              ELSE held' = NoItem /\ gen_done' = TRUE
    /\ UNCHANGED <<ukind, payload_format, sections, uqueue>>
    /\ UNCHANGED <<parserVars, yaraVars, laterVars, lastVars>>

\* the body of the for loop: the yielded MetaDirectory is put on the scan queue
ConsumerEnqueue ==
    /\ held # NoItem
    /\ events' = Append(events, Stmt("enqueue", held))
    /\ uqueue' = Append(uqueue, held)
    /\ held' = NoItem
    /\ UNCHANGED <<ukind, payload_format, sections, ip, gen_done>>
    /\ UNCHANGED <<parserVars, yaraVars, laterVars, lastVars>>

UnpackNext ==
    \/ GenNext
    \/ ConsumerEnqueue

(***************************************************************************)
(* yara_from_bang.py: main and the process_directory workers               *)
(***************************************************************************)
Workers == 1..MaxThreads
Shas == 1..MaxShas

\* a result directory: the sha256 of the scantree entry labelled root (0 when
\* no entry has that label) and whether bang.pickle unpickles
Directories == [root : Shas \cup {0}, loadable : BOOLEAN]

YaraIdle ==
    /\ dirs = <<>>
    /\ threads = 0
    /\ yaraqueue = <<>>
    /\ unfinished = 0
    /\ mpc = "off"
    /\ wpc = [w \in Workers |-> "unstarted"]
    /\ wdir = [w \in Workers |-> 0]
    /\ root_sha256 = [w \in Workers |-> 0]
    /\ processed = [w \in Workers |-> FALSE]
    /\ processlock = 0
    /\ processed_files = {}
    /\ task_done_calls = <<>>
    /\ yara_written = <<>>

\* main has put every result directory on the queue (lines 433-441) and has
\* created the processes
YaraInit ==
    /\ dirs \in SeqsUpTo(Directories, MaxDirs)
    /\ threads \in 0..MaxThreads
    /\ yaraqueue = [i \in 1..Len(dirs) |-> i]
    /\ unfinished = Len(dirs)
    /\ mpc = "start"
    /\ wpc = [w \in Workers |-> "unstarted"]
    /\ wdir = [w \in Workers |-> 0]
    /\ root_sha256 = [w \in Workers |-> 0]
    /\ processed = [w \in Workers |-> FALSE]
    /\ processlock = 0
    /\ processed_files = {}
    /\ task_done_calls = [i \in 1..Len(dirs) |-> 0]
    /\ yara_written = [i \in 1..Len(dirs) |-> "not_reached"]

\* for process in processes: process.start()
MainStart ==
    /\ mpc = "start"
    /\ wpc' = [w \in Workers |-> IF w <= threads THEN "get" ELSE "unstarted"]
    /\ mpc' = "join"
    /\ UNCHANGED <<dirs, threads, yaraqueue, unfinished, wdir, root_sha256, processed,
                   processlock, processed_files, task_done_calls, yara_written>>
    /\ UNCHANGED <<parserVars, unpackVars, laterVars, lastVars>>

\* yaraqueue.join() returns
MainJoin ==
    /\ mpc = "join"
    /\ unfinished = 0
    /\ mpc' = "terminate"
    /\ UNCHANGED <<dirs, threads, yaraqueue, unfinished, wpc, wdir, root_sha256, processed,
                   processlock, processed_files, task_done_calls, yara_written>>
    /\ UNCHANGED <<parserVars, unpackVars, laterVars, lastVars>>

\* for process in processes: process.terminate(); main returns
MainTerminate ==
    /\ mpc = "terminate"
    /\ wpc' = [w \in Workers |-> IF w <= threads THEN "terminated" ELSE "unstarted"]
    /\ mpc' = "returned"
    /\ UNCHANGED <<dirs, threads, yaraqueue, unfinished, wdir, root_sha256, processed,
                   processlock, processed_files, task_done_calls, yara_written>>
    /\ UNCHANGED <<parserVars, unpackVars, laterVars, lastVars>>

\* bang_directory = yaraqueue.get(); processed = False
WorkerGet(w) ==
    /\ wpc[w] = "get"
    /\ yaraqueue # <<>>
    /\ wdir' = [wdir EXCEPT ![w] = Head(yaraqueue)]
    /\ yaraqueue' = Tail(yaraqueue)
    /\ processed' = [processed EXCEPT ![w] = FALSE]
    /\ wpc' = [wpc EXCEPT ![w] = "load"]
    /\ UNCHANGED <<dirs, threads, unfinished, mpc, root_sha256, processlock,
                   processed_files, task_done_calls, yara_written>>
    /\ UNCHANGED <<parserVars, unpackVars, laterVars, lastVars>>

\* pickle.load of bang.pickle, then the loop that looks for the entry labelled
\* root up to processlock.acquire(); an exception of pickle.load ends the process
WorkerLoad(w) ==
    /\ wpc[w] = "load"
    /\ LET d == dirs[wdir[w]]
       IN  IF ~d.loadable
           THEN wpc' = [wpc EXCEPT ![w] = "dead"] /\ UNCHANGED root_sha256
           ELSE IF d.root # 0
           THEN /\ root_sha256' = [root_sha256 EXCEPT ![w] = d.root]
                /\ wpc' = [wpc EXCEPT ![w] = "acquire_check"]
           ELSE /\ wpc' = [wpc EXCEPT ![w] = "acquire_insert"]
                /\ UNCHANGED root_sha256
    /\ UNCHANGED <<dirs, threads, yaraqueue, unfinished, mpc, wdir, processed, processlock,
                   processed_files, task_done_calls, yara_written>>
    /\ UNCHANGED <<parserVars, unpackVars, laterVars, lastVars>>

\* processlock.acquire() at line 163
WorkerAcquireCheck(w) ==
    /\ wpc[w] = "acquire_check"
    /\ processlock = 0
    /\ processlock' = w
    /\ wpc' = [wpc EXCEPT ![w] = "check"]
    /\ UNCHANGED <<dirs, threads, yaraqueue, unfinished, mpc, wdir, root_sha256, processed,
                   processed_files, task_done_calls, yara_written>>
    /\ UNCHANGED <<parserVars, unpackVars, laterVars, lastVars>>

\* if root_sha256 in processed_files: processed = True; processlock.release()
WorkerCheck(w) ==
    /\ wpc[w] = "check"
    /\ processed' = [processed EXCEPT ![w] = root_sha256[w] \in processed_files]
    /\ processlock' = 0
    /\ wpc' = [wpc EXCEPT ![w] = IF root_sha256[w] \in processed_files
                                 THEN "duplicate" ELSE "acquire_insert"]
    /\ UNCHANGED <<dirs, threads, yaraqueue, unfinished, mpc, wdir, root_sha256,
                   processed_files, task_done_calls, yara_written>>
    /\ UNCHANGED <<parserVars, unpackVars, laterVars, lastVars>>

\* if processed: yaraqueue.task_done(); continue
WorkerDuplicate(w) ==
    /\ wpc[w] = "duplicate"
    /\ unfinished' = unfinished - 1
    /\ task_done_calls' = [task_done_calls EXCEPT ![wdir[w]] = @ + 1]
    /\ wdir' = [wdir EXCEPT ![w] = 0]
    /\ wpc' = [wpc EXCEPT ![w] = "get"]
    /\ UNCHANGED <<dirs, threads, yaraqueue, mpc, root_sha256, processed, processlock,
                   processed_files, yara_written>>
    /\ UNCHANGED <<parserVars, unpackVars, laterVars, lastVars>>

\* processlock.acquire() at line 175
WorkerAcquireInsert(w) ==
    /\ wpc[w] = "acquire_insert"
    /\ processlock = 0
    /\ processlock' = w
    /\ wpc' = [wpc EXCEPT ![w] = "insert"]
    /\ UNCHANGED <<dirs, threads, yaraqueue, unfinished, mpc, wdir, root_sha256, processed,
                   processed_files, task_done_calls, yara_written>>
    /\ UNCHANGED <<parserVars, unpackVars, laterVars, lastVars>>

\* processed_files[root_sha256] = ''; processlock.release().  root_sha256 is
\* unbound when no directory of this worker has had a root entry yet: the
\* NameError ends the process, which holds the lock
WorkerInsert(w) ==
    /\ wpc[w] = "insert"
    /\ IF root_sha256[w] = 0
       THEN /\ wpc' = [wpc EXCEPT ![w] = "dead"]
            /\ UNCHANGED <<processed_files, processlock>>
       ELSE /\ processed_files' = processed_files \cup {root_sha256[w]}
            /\ processlock' = 0
            /\ wpc' = [wpc EXCEPT ![w] = "generate"]
    /\ UNCHANGED <<dirs, threads, yaraqueue, unfinished, mpc, wdir, root_sha256, processed,
                   task_done_calls, yara_written>>
    /\ UNCHANGED <<parserVars, unpackVars, laterVars, lastVars>>

\* the loop over the scantree that writes the rules of the ELF and Dex files
\* (lines 179-355), the package file when a rule was written, and
\* yaraqueue.task_done() at line 383
WorkerGenerate(w, wrote) ==
    /\ wpc[w] = "generate"
    /\ yara_written' = [yara_written EXCEPT ![wdir[w]] = IF wrote THEN "rules" ELSE "none"]
    /\ unfinished' = unfinished - 1
    /\ task_done_calls' = [task_done_calls EXCEPT ![wdir[w]] = @ + 1]
    /\ wdir' = [wdir EXCEPT ![w] = 0]
    /\ wpc' = [wpc EXCEPT ![w] = "get"]
    /\ UNCHANGED <<dirs, threads, yaraqueue, mpc, root_sha256, processed, processlock,
                   processed_files>>
    /\ UNCHANGED <<parserVars, unpackVars, laterVars, lastVars>>

YaraNext ==
    \/ MainStart
    \/ MainJoin
    \/ MainTerminate
    \/ \E w \in Workers : WorkerGet(w)
    \/ \E w \in Workers : WorkerLoad(w)
    \/ \E w \in Workers : WorkerAcquireCheck(w)
    \/ \E w \in Workers : WorkerCheck(w)
    \/ \E w \in Workers : WorkerDuplicate(w)
    \/ \E w \in Workers : WorkerAcquireInsert(w)
    \/ \E w \in Workers : WorkerInsert(w)
    \/ \E w \in Workers, wrote \in BOOLEAN : WorkerGenerate(w, wrote)

(***************************************************************************)
(* write_info calls of several parsers on the info of one MetaDirectory    *)
(***************************************************************************)
\* most write_info calls on one MetaDirectory
MaxWrites == 3

\* the classes that use UnpackParser.write_info with their class attributes
BaseWriters == {"utmp", "extracted", "synthesizing"}

Writer(cls, padding) == [cls |-> cls, is_padding |-> padding]

InfoIdle ==
    /\ md_info0 = EmptyDict
    /\ md_info = EmptyDict
    /\ writers = <<>>

InfoInit ==
    /\ md_info0 \in InitialInfos
    /\ md_info = md_info0
    /\ writers = <<>>

\* write_info of UtmpUnpackParser, ExtractedParser or SynthesizingParser
BaseWriteInfoCall(k) ==
    /\ Len(writers) < MaxWrites
    /\ md_info' = BaseWriteInfo(k, md_info)
    /\ writers' = Append(writers, Writer(k, FALSE))
    /\ UNCHANGED md_info0
    /\ UNCHANGED <<coreVars, lastVars, extVars, scanVars, rpmVars, elfVars, idVars>>

\* write_info of a PaddingParser whose parse left is_padding at padding
PaddingWriteInfoCall(padding) ==
    /\ Len(writers) < MaxWrites
    /\ md_info' = PaddingWriteInfo(padding, md_info)
    /\ writers' = Append(writers, Writer("padding", padding))
    /\ UNCHANGED md_info0
    /\ UNCHANGED <<coreVars, lastVars, extVars, scanVars, rpmVars, elfVars, idVars>>

\* ExtractingParser.with_parts(md, parts).write_info(md)
ExtractingWriteInfoCall ==
    /\ Len(writers) < MaxWrites
    /\ md_info' = ExtractingWriteInfo(md_info)
    /\ writers' = Append(writers, Writer("extracting", FALSE))
    /\ UNCHANGED md_info0
    /\ UNCHANGED <<coreVars, lastVars, extVars, scanVars, rpmVars, elfVars, idVars>>

InfoNext ==
    \/ \E k \in BaseWriters : BaseWriteInfoCall(k)
    \/ \E padding \in BOOLEAN : PaddingWriteInfoCall(padding)
    \/ ExtractingWriteInfoCall

(***************************************************************************)
(* UnpackParser.is_valid_extension                                         *)
(***************************************************************************)
\* longest extension handed to is_valid_extension
MaxExtLen == 4

\* the characters of the model: five letters, each in lower and in upper case
LowerChars == {"u", "w", "t", "m", "p"}
UpperChars == {"U", "W", "T", "M", "P"}
Chars == LowerChars \cup UpperChars

\* str.lower and str.upper on one character
LowerChar(c) ==
    CASE c = "U" -> "u" [] c = "W" -> "w" [] c = "T" -> "t"
      [] c = "M" -> "m" [] c = "P" -> "p" [] OTHER -> c
UpperChar(c) ==
    CASE c = "u" -> "U" [] c = "w" -> "W" [] c = "t" -> "T"
      [] c = "m" -> "M" [] c = "p" -> "P" [] OTHER -> c

\* the strings that differ from e in the case of their letters at most
Recasings(e) ==
    {[n \in 1..Len(e) |-> IF n \in up THEN UpperChar(e[n]) ELSE LowerChar(e[n])] :
        up \in SUBSET (1..Len(e))}

ExtClasses == {"utmp", "elf"}

\* the class attribute extensions
extensions(cls) ==
    IF cls = "utmp" THEN {<<"u", "t", "m", "p">>, <<"w", "t", "m", "p">>} ELSE {}

\* return ext in cls.extensions
is_valid_extension(cls, e) == e \in extensions(cls)

ExtIdle ==
    /\ ext_cls = "none"
    /\ ext = <<>>
    /\ ext_result = "none"

ExtInit ==
    /\ ext_cls \in ExtClasses
    /\ ext \in SeqsUpTo(Chars, MaxExtLen)
    /\ ext_result = "none"

IsValidExtensionCall ==
    /\ ext_cls # "none"
    /\ ext_result = "none"
    /\ ext_result' = PyBool(is_valid_extension(ext_cls, ext))
    /\ UNCHANGED <<ext_cls, ext>>
    /\ UNCHANGED <<coreVars, lastVars, infoVars, scanVars, rpmVars, elfVars, idVars>>

ExtNext == IsValidExtensionCall

(***************************************************************************)
(* bangfilescans.py: unpack_script, unpack_kernel_config, unpack_fstab     *)
(***************************************************************************)
\* most lines of a scanned file
MaxLines == 2

\* a line whose bytes are no valid text in the encoding of open(..., 'r')
Undecodable == "<bytes ff fe>"

\* the lines of the model
Lines ==
    {"#!/usr/bin/env python", "#!/usr/bin/perl", "#!/bin/sh", "#!/bin/bash", "",
     "# Automatically generated file; DO NOT EDIT.", "# Compiler: gcc",
     "# CONFIG_A is not set", "CONFIG_A=y", "/dev/sda1 / ext4 defaults", "hello",
     Undecodable}

\* filename_full.suffix of the files of the model
Suffixes == {".py", ".PY", ".pl", ".sh", ""}

\* filename_full.suffix.lower()
SuffixLower(suffix) == IF suffix = ".PY" THEN ".py" ELSE suffix

\* the bytes of one line with its newline
LineBytes(line) ==
    CASE line = "#!/usr/bin/env python" -> 22
      [] line = "#!/usr/bin/perl" -> 16
      [] line = "#!/bin/sh" -> 10
      [] line = "#!/bin/bash" -> 12
      [] line = "# Compiler: gcc" -> 16
      [] line = "" -> 1
      [] line = "# Automatically generated file; DO NOT EDIT." -> 45
      [] line = "# CONFIG_A is not set" -> 22
      [] line = "CONFIG_A=y" -> 11
      [] line = "/dev/sda1 / ext4 defaults" -> 26
      [] line = "hello" -> 6
      [] OTHER -> 3

RECURSIVE SumBytes(_, _)
SumBytes(lines, n) == IF n = 0 THEN 0 ELSE LineBytes(lines[n]) + SumBytes(lines, n - 1)

\* fileresult.filesize
filesize(file) == SumBytes(file.lines, Len(file.lines))

\* the text layer decodes a file of this size in one piece, on the first
\* read: every read of a file with an undecodable line raises UnicodeDecodeError
Decodable(file) == \A n \in 1..Len(file.lines) : file.lines[n] # Undecodable

ScanFiles == [suffix : Suffixes, lines : SeqsUpTo(Lines, MaxLines)]

NoResult == [status |-> "none", fatal |-> FALSE, labels |-> <<>>, length |-> 0]
\* {'status': True, 'length': ..., 'labels': ..., 'filesandlabels': []}
Success(length, labs) == [status |-> "True", fatal |-> FALSE, labels |-> labs, length |-> length]
\* {'status': False, 'error': {'offset': ..., 'fatal': False, 'reason': ...}}
Failure == [status |-> "False", fatal |-> FALSE, labels |-> <<>>, length |-> 0]
\* an exception leaves the verifier
Raised == [status |-> "UnicodeDecodeError", fatal |-> FALSE, labels |-> <<>>, length |-> 0]

\* '#!' in checkline, 'python' in checkline.strip() and so on
HasShebang(line) ==
    line \in {"#!/usr/bin/env python", "#!/usr/bin/perl", "#!/bin/sh", "#!/bin/bash"}
HasPython(line) == line = "#!/usr/bin/env python"
HasPerl(line) == line = "#!/usr/bin/perl"
HasBash(line) == line = "#!/bin/bash"
HasSh(line) == line = "#!/bin/sh"

\* unpack_script
unpack_script(file) ==
    IF ~Decodable(file) THEN Raised
    ELSE LET checkline == IF file.lines = <<>> THEN "" ELSE file.lines[1]
             suffix == SuffixLower(file.suffix)
         IN  IF HasShebang(checkline)
             THEN CASE suffix = ".py" /\ HasPython(checkline) ->
                           Success(filesize(file), <<"script", "python">>)
                    [] suffix = ".pl" /\ HasPerl(checkline) ->
                           Success(filesize(file), <<"script", "perl">>)
                    [] suffix = ".sh" /\ HasBash(checkline) ->
                           Success(filesize(file), <<"script", "bash">>)
                    [] suffix = ".sh" /\ ~HasBash(checkline) /\ HasSh(checkline) ->
                           Success(filesize(file), <<"script", "shell">>)
                    [] OTHER -> Failure
             ELSE Failure

\* the regular expressions of unpack_kernel_config on the lines of the model
MatchesConfigre(line) == line = "# CONFIG_A is not set"
MatchesHeader(line) == line = "# Automatically generated file; DO NOT EDIT."
MatchesDatedHeader(line) == line = "# Compiler: gcc"
MatchesConfigheaderre(line) ==
    line \in {"# Automatically generated file; DO NOT EDIT.", "# Compiler: gcc",
              "# CONFIG_A is not set"}
MatchesConfigre23(line) == line = "CONFIG_A=y"
StartsWithHash(line) ==
    line \in {"#!/usr/bin/env python", "#!/usr/bin/perl", "#!/bin/sh", "#!/bin/bash",
              "# Automatically generated file; DO NOT EDIT.", "# Compiler: gcc",
              "# CONFIG_A is not set"}

RECURSIVE KernelConfigLoop(_, _, _, _)
\* the for loop of unpack_kernel_config from line n on: kernelconfigfound
KernelConfigLoop(lines, n, headerfound, kernelconfigfound) ==
    IF n > Len(lines) THEN kernelconfigfound
    ELSE LET i == lines[n]
         IN  IF i = "" THEN KernelConfigLoop(lines, n + 1, headerfound, kernelconfigfound)
             ELSE IF StartsWithHash(i)
             THEN IF MatchesConfigre(i)
                  THEN KernelConfigLoop(lines, n + 1, headerfound, TRUE)
                  ELSE IF ~headerfound
                  THEN IF MatchesHeader(i)
                       THEN KernelConfigLoop(lines, n + 1, headerfound, kernelconfigfound)
                       ELSE IF MatchesDatedHeader(i)
                       THEN KernelConfigLoop(lines, n + 1, TRUE, kernelconfigfound)
                       ELSE kernelconfigfound
                  ELSE IF MatchesConfigheaderre(i)
                       THEN KernelConfigLoop(lines, n + 1, headerfound, kernelconfigfound)
                       ELSE kernelconfigfound
             ELSE IF MatchesConfigre23(i)
                  THEN KernelConfigLoop(lines, n + 1, headerfound, TRUE)
                  ELSE kernelconfigfound

\* unpack_kernel_config
unpack_kernel_config(file) ==
    IF ~Decodable(file) THEN Raised
    ELSE IF KernelConfigLoop(file.lines, 1, FALSE, FALSE)
         THEN Success(filesize(file), <<"text", "kernel configuration">>)
         ELSE Failure

\* len(l.strip().split())
Fields(line) ==
    CASE line = "/dev/sda1 / ext4 defaults" -> 4
      [] line = "#!/usr/bin/env python" -> 2
      [] line = "# Automatically generated file; DO NOT EDIT." -> 7
      [] line = "# CONFIG_A is not set" -> 5
      [] line = "# Compiler: gcc" -> 3
      [] line = "" -> 0
      [] OTHER -> 1

\* unpack_fstab
unpack_fstab(file) ==
    IF ~Decodable(file) THEN Failure
    ELSE IF \E n \in 1..Len(file.lines) :
                /\ file.lines[n] # "" /\ ~StartsWithHash(file.lines[n])
                /\ Fields(file.lines[n]) < 4 \/ Fields(file.lines[n]) > 6
         THEN Failure
         ELSE Success(filesize(file), <<"fstab">>)

ScanIdle ==
    /\ scan_file = [suffix |-> "", lines |-> <<>>]
    /\ scan_verifier = "none"
    /\ scan_result = NoResult

\* a file exists and no verifier has been called on it yet
ScanInit ==
    /\ scan_file \in ScanFiles
    /\ scan_verifier = "none"
    /\ scan_result = NoResult

UnpackScriptCall ==
    /\ scan_verifier = "none" /\ scan_file \in ScanFiles
    /\ scan_verifier' = "unpack_script"
    /\ scan_result' = unpack_script(scan_file)
    /\ UNCHANGED scan_file
    /\ UNCHANGED <<coreVars, lastVars, infoVars, extVars, rpmVars, elfVars, idVars>>

UnpackKernelConfigCall ==
    /\ scan_verifier = "none" /\ scan_file \in ScanFiles
    /\ scan_verifier' = "unpack_kernel_config"
    /\ scan_result' = unpack_kernel_config(scan_file)
    /\ UNCHANGED scan_file
    /\ UNCHANGED <<coreVars, lastVars, infoVars, extVars, rpmVars, elfVars, idVars>>

UnpackFstabCall ==
    /\ scan_verifier = "none" /\ scan_file \in ScanFiles
    /\ scan_verifier' = "unpack_fstab"
    /\ scan_result' = unpack_fstab(scan_file)
    /\ UNCHANGED scan_file
    /\ UNCHANGED <<coreVars, lastVars, infoVars, extVars, rpmVars, elfVars, idVars>>

ScanNext ==
    \/ UnpackScriptCall
    \/ UnpackKernelConfigCall
    \/ UnpackFstabCall

(***************************************************************************)
(* RpmUnpackParser: parse, the labels and metadata properties, unpack      *)
(***************************************************************************)
\* most index records of the RPM header
MaxRecords == 2

\* an index record of the header: its tag and body.values[0]
IndexRecords ==
    [header_tag : {"payload_compressor"}, value : {"gzip", "xz"}] \cup
    [header_tag : {"payload_format"}, value : {"cpio", "drpm", "tar"}] \cup
    [header_tag : {"name"}, value : {"bash"}]

\* self.data: the lead, the index records of the header, and the
\* compression the payload bytes really have
RpmFiles ==
    [valid : BOOLEAN,
     lead_type : {"binary", "source", "other"},
     major : {3, 4},
     index_records : SeqsUpTo(IndexRecords, MaxRecords),
     payload : {"gzip", "xz", "garbage"}]

NewSelf == [compressor |-> "gzip", compressor_seen |-> FALSE, payload_format |-> "",
            raised |-> FALSE]

RECURSIVE IndexRecordsLoop(_, _, _)
\* the for loop over self.data.header.index_records from record n on;
\* raised tells that a check_condition of the loop failed
IndexRecordsLoop(records, n, self) ==
    IF n > Len(records) \/ self.raised THEN self
    ELSE LET i == records[n]
         IN  IF i.header_tag = "payload_compressor"
             THEN IF self.compressor_seen
                  THEN [self EXCEPT !.raised = TRUE]
                  ELSE IndexRecordsLoop(records, n + 1,
                           [self EXCEPT !.compressor_seen = TRUE, !.compressor = i.value])
             ELSE IF i.header_tag = "payload_format"
             THEN IF self.payload_format # ""
                  THEN [self EXCEPT !.raised = TRUE]
                  ELSE IndexRecordsLoop(records, n + 1,
                           [self EXCEPT !.payload_format = i.value])
             ELSE IndexRecordsLoop(records, n + 1, self)

\* a check that lets every payload format through
AnyPayloadFormat(fmt) == TRUE

\* self.payload_format in ['cpio', 'drpm']
SupportedPayloadFormat(fmt) == fmt \in {"cpio", "drpm"}

\* the decompressor that parse picks for self.compressor works on the payload
Decompresses(compressor, payload) ==
    CASE compressor = "bzip2" -> payload = "bzip2"
      [] compressor \in {"xz", "lzma"} -> payload = "xz"
      [] compressor = "zstd" -> payload = "zstd"
      [] OTHER -> payload = "gzip"

\* RpmUnpackParser.parse: self afterwards, raised when it raised
RpmParse(d) ==
    IF ~d.valid \/ d.lead_type \notin {"binary", "source"}
    THEN [NewSelf EXCEPT !.raised = TRUE]
    ELSE LET self == IndexRecordsLoop(d.index_records, 1, NewSelf)
         IN  IF self.raised THEN self
             ELSE IF ~SupportedPayloadFormat(self.payload_format)
             THEN [self EXCEPT !.raised = TRUE]
             ELSE [self EXCEPT !.raised = ~Decompresses(self.compressor, d.payload)]

\* the labels property
RpmLabels(self) ==
    IF self.payload_format = "drpm" THEN <<"rpm", "delta rpm">> ELSE <<"rpm">>

\* metadata['header_tags']: the value of the last record of each tag
HeaderTags(records) ==
    [t \in {records[n].header_tag : n \in 1..Len(records)} |->
        LET last == CHOOSE n \in 1..Len(records) :
                        /\ records[n].header_tag = t
                        /\ \A m \in (n + 1)..Len(records) : records[m].header_tag # t
        IN  records[last].value]

\* the metadata property
RpmMetadata(d) ==
    [k \in {"version", "type", "signature_tags", "header_tags"} |->
        CASE k = "version" -> [major |-> d.major, minor |-> 0]
          [] k = "type" -> IF d.lead_type = "binary" THEN "binary" ELSE "source"
          [] k = "signature_tags" -> EmptyDict
          [] k = "header_tags" -> HeaderTags(d.index_records)]

\* the names of the MetaDirectories that iterating a generator body gives
ChildNames(body) ==
    LET yields == SelectSeq(body, LAMBDA st : st.op = "yield")
    IN  [n \in 1..Len(yields) |-> yields[n].item.name]

RpmIdle ==
    /\ rpm_data = "none"
    /\ rpm_pc = "off"
    /\ rpm_self = NewSelf
    /\ rpm_info = EmptyDict
    /\ rpm_children = <<>>
    /\ rpm_unpacked = FALSE

RpmInit ==
    /\ rpm_data \in RpmFiles
    /\ rpm_pc = "new"
    /\ rpm_self = NewSelf
    /\ rpm_info = EmptyDict
    /\ rpm_children = <<>>
    /\ rpm_unpacked = FALSE

\* parse_from_offset: parse(), and the exception when it raises
RpmParseCall ==
    /\ rpm_pc = "new"
    /\ rpm_self' = RpmParse(rpm_data)
    /\ rpm_pc' = IF RpmParse(rpm_data).raised THEN "raised" ELSE "parsed"
    /\ UNCHANGED <<rpm_data, rpm_info, rpm_children, rpm_unpacked>>
    /\ UNCHANGED <<coreVars, lastVars, infoVars, extVars, scanVars, elfVars, idVars>>

\* write_info on the empty info of the top-level MetaDirectory
RpmWriteInfo ==
    /\ rpm_pc = "parsed" /\ DOMAIN rpm_info = {}
    /\ rpm_info' = write_info(EmptyDict, "rpm", RpmLabels(rpm_self), RpmMetadata(rpm_data))
    /\ UNCHANGED <<rpm_data, rpm_pc, rpm_self, rpm_children, rpm_unpacked>>
    /\ UNCHANGED <<coreVars, lastVars, infoVars, extVars, scanVars, elfVars, idVars>>

\* the for loop over unpack(meta_directory)
RpmUnpack ==
    /\ rpm_pc = "parsed" /\ ~rpm_unpacked
    /\ rpm_children' = ChildNames(RpmBody(rpm_self.payload_format))
    /\ rpm_unpacked' = TRUE
    /\ UNCHANGED <<rpm_data, rpm_pc, rpm_self, rpm_info>>
    /\ UNCHANGED <<coreVars, lastVars, infoVars, extVars, scanVars, elfVars, idVars>>

RpmNext ==
    \/ RpmParseCall
    \/ RpmWriteInfo
    \/ RpmUnpack

(***************************************************************************)
(* ElfUnpackParser.write_info: extract_metadata_and_labels                 *)
(***************************************************************************)
\* most program headers of an ELF file
MaxProgramHeaders == 2

\* an entry of a dynamic array with what the loop reads of it
DynEntry(tag, bind_now, pie) == [tag_enum |-> tag, bind_now |-> bind_now, pie |-> pie]

\* the program headers of the model; a header of type dynamic (PT_DYNAMIC)
\* holds the dynamic array of the file
ProgramHeaders ==
    {[type |-> "gnu_relro", execute |-> FALSE, entries |-> <<>>],
     [type |-> "gnu_stack", execute |-> FALSE, entries |-> <<>>],
     [type |-> "gnu_stack", execute |-> TRUE, entries |-> <<>>],
     [type |-> "dynamic", execute |-> FALSE,
      entries |-> <<DynEntry("flags", TRUE, FALSE)>>]}

\* the section headers of the model
ElfSectionHeaders ==
    {[type |-> "dynamic", name |-> ".dynamic",
      entries |-> <<DynEntry("needed", FALSE, FALSE), DynEntry("flags", TRUE, FALSE)>>],
     [type |-> "dynamic", name |-> ".dynamic",
      entries |-> <<DynEntry("flags_1", TRUE, TRUE)>>],
     [type |-> "dynamic", name |-> ".dynamic",
      entries |-> <<DynEntry("flags", FALSE, FALSE)>>],
     [type |-> "dynamic", name |-> ".dyn",
      entries |-> <<DynEntry("flags", TRUE, FALSE)>>],
     [type |-> "progbits", name |-> ".modinfo", entries |-> <<>>],
     [type |-> "progbits", name |-> "__ksymtab_strings", entries |-> <<>>],
     [type |-> "progbits", name |-> ".dex", entries |-> <<>>]}

ElfFiles ==
    [e_type : {"executable", "core"},
     program_headers : SeqsUpTo(ProgramHeaders, MaxProgramHeaders),
     section_headers : SeqsUpTo(ElfSectionHeaders, MaxSections)]

RECURSIVE ProgramHeaderLoop(_, _, _)
\* the for loop over the program headers from header n on: metadata['security']
\* and seen_relro
ProgramHeaderLoop(phs, n, acc) ==
    IF n > Len(phs) THEN acc
    ELSE LET header == phs[n]
         IN  ProgramHeaderLoop(phs, n + 1,
                 CASE header.type = "gnu_relro" ->
                          [security |-> Append(acc.security, "relro"), seen_relro |-> TRUE]
                   [] header.type = "gnu_stack" /\ ~header.execute ->
                          [acc EXCEPT !.security = Append(acc.security, "nx")]
                   [] header.type = "pax_flags" ->
                          [acc EXCEPT !.security = Append(acc.security, "pax")]
                   [] OTHER -> acc)

\* if seen_relro: 'full relro' else: 'partial relro'
RelroLabel(seen_relro) == IF seen_relro THEN "full relro" ELSE "partial relro"

RECURSIVE DynamicEntriesLoop(_, _, _, _)
\* the for loop over the entries of the section .dynamic from entry n on
DynamicEntriesLoop(entries, n, seen_relro, security) ==
    IF n > Len(entries) THEN security
    ELSE LET entry == entries[n]
             withpie == IF entry.pie THEN Append(security, "pie") ELSE security
         IN  DynamicEntriesLoop(entries, n + 1, seen_relro,
                 CASE entry.tag_enum = "flags_1" ->
                          IF entry.bind_now
                          THEN Append(withpie, RelroLabel(seen_relro)) ELSE withpie
                   [] entry.tag_enum = "flags" ->
                          IF entry.bind_now
                          THEN Append(security, RelroLabel(seen_relro)) ELSE security
                   [] OTHER -> security)

\* the labels one section header adds by its name
SectionLabels(name) ==
    CASE name \in {".modinfo", "__ksymtab_strings"} -> <<"linuxkernelmodule">>
      [] name \in {".oat_patches", ".text.oat_patches", ".dex"} -> <<"oat", "android">>
      [] name \in {".guile.procprops", ".guile.frame-maps", ".guile.arities.strtab",
                   ".guile.arities", ".guile.docstrs.strtab", ".guile.docstrs"} ->
             <<"guile">>
      [] OTHER -> <<>>

RECURSIVE SectionHeaderLoop(_, _, _, _)
\* the for loop over the section headers from header n on: labels,
\* metadata['security'] and is_dynamic_elf
SectionHeaderLoop(shs, n, seen_relro, acc) ==
    IF n > Len(shs) THEN acc
    ELSE LET header == shs[n]
         IN  SectionHeaderLoop(shs, n + 1, seen_relro,
                 [labels |-> acc.labels \o SectionLabels(header.name),
                  security |->
                      IF header.type = "dynamic" /\ header.name = ".dynamic"
                      THEN DynamicEntriesLoop(header.entries, 1, seen_relro, acc.security)
                      ELSE acc.security,
                  is_dynamic_elf |-> acc.is_dynamic_elf \/ header.type = "dynamic"])

\* the place of a tag of metadata['security'] in the order of list.sort()
SecurityRank(tag) ==
    CASE tag = "full relro" -> 1
      [] tag = "nx" -> 2
      [] tag = "partial relro" -> 3
      [] tag = "pax" -> 4
      [] tag = "pie" -> 5
      [] OTHER -> 6

RECURSIVE SortedFrom(_, _)
\* metadata['security'].sort(): the tags of rank r and above, in order
SortedFrom(q, r) ==
    IF r > 6 THEN <<>>
    ELSE SelectSeq(q, LAMBDA tag : SecurityRank(tag) = r) \o SortedFrom(q, r + 1)

\* extract_metadata_and_labels: the labels, and of the metadata the type and
\* the security list
extract_metadata_and_labels(d) ==
    LET ph == ProgramHeaderLoop(d.program_headers, 1,
                                [security |-> <<>>, seen_relro |-> FALSE])
        sh == SectionHeaderLoop(d.section_headers, 1, ph.seen_relro,
                                [labels |-> <<"elf">>, security |-> ph.security,
                                 is_dynamic_elf |-> FALSE])
    IN  [labels |-> sh.labels \o
                    (IF sh.is_dynamic_elf THEN <<"dynamic">>
                     ELSE IF d.e_type = "core" THEN <<"core">> ELSE <<"static">>),
         metadata |-> [k \in {"type", "security"} |->
                          IF k = "type" THEN d.e_type
                          ELSE SortedFrom(sh.security, 1)]]

ElfIdle ==
    /\ elf_data = [e_type |-> "executable", program_headers |-> <<>>,
                   section_headers |-> <<>>]
    /\ elf_written = FALSE

ElfInit ==
    /\ elf_data \in ElfFiles
    /\ elf_written = FALSE

\* ElfUnpackParser.write_info
ElfWriteInfo ==
    /\ ~elf_written /\ elf_data \in ElfFiles
    /\ LET r == extract_metadata_and_labels(elf_data)
       IN  md_info' = write_info(md_info, "elf", r.labels, r.metadata)
    /\ writers' = Append(writers, Writer("elf", FALSE))
    /\ elf_written' = TRUE
    /\ UNCHANGED <<elf_data, md_info0>>
    /\ UNCHANGED <<coreVars, lastVars, extVars, scanVars, rpmVars, idVars>>

ElfNext == ElfWriteInfo

(***************************************************************************)
(* yara_from_bang.py, process_directory: the identifiers of one ELF or     *)
(* Dex file, from the symbol, method and field loops to generate_yara      *)
(***************************************************************************)
\* most symbols (ELF) or methods and fields (Dex) of one file
MaxSymbols == 2

\* s contains sub
Contains(s, sub) ==
    \E n \in 1..(Len(s) - Len(sub) + 1) : SubSeq(s, n, n + Len(sub) - 1) = sub

\* where the last occurrence of sub in s begins
LastIndex(s, sub) ==
    CHOOSE n \in 1..(Len(s) - Len(sub) + 1) :
        /\ SubSeq(s, n, n + Len(sub) - 1) = sub
        /\ \A m \in (n + 1)..(Len(s) - Len(sub) + 1) : SubSeq(s, m, m + Len(sub) - 1) # sub

\* s.rsplit(sub, 1)[0]
RsplitHead(s, sub) == SubSeq(s, 1, LastIndex(s, sub) - 1)

\* a symbol loop that keeps the version suffix
identifier_name_unstripped(name) == name

\* identifier_name of a symbol named name
identifier_name(name) ==
    IF Contains(name, "@@") THEN RsplitHead(name, "@@")
    ELSE IF Contains(name, "@") THEN RsplitHead(name, "@")
    ELSE name

\* the symbol names, method names and field names of the model
SymbolNames ==
    {"foo@@GLIBC_2.2.5", "f@@GLIBC_2.2.5", "bar@VERS_1", "a@b@@c", "main", "x"}
DexNames == {"<init>", "access$000", "run", "a", " "}

\* an entry of results_data['metadata']['symbols']
Symbols ==
    [name : SymbolNames, type : {"func", "object", "notype"},
     section_index : {0, 7}, binding : {"global", "weak"}]

\* yara_env: the cutoff, the weak symbol switch, the low quality identifiers
\* (one list for functions and variables of both kinds of file) and the
\* heuristics functions_extracted, variables_extracted and strings_extracted
YaraEnvs ==
    [identifier_cutoff : {2, 4},
     ignore_weak_symbols : BOOLEAN,
     lq_identifiers : {{}, {"main", "run"}},
     extracted : {0, 2}]

\* the set strings after the loop over results_data['metadata']['strings']
StringSets == {{}, {"usage: %s"}}

NotGenerated == [called |-> FALSE, functions |-> {}, variables |-> {}, strings |-> {}]

\* re.match(r'^\s+$', name) is not None, on the names of the model
WhitespaceOnly(name) == Len(name) >= 1 /\ \A n \in 1..Len(name) : SubSeq(name, n, n) = " "

\* name.startswith(prefix)
StartsWith(name, prefix) ==
    Len(name) >= Len(prefix) /\ SubSeq(name, 1, Len(prefix)) = prefix

\* the body of the loop over the symbols for symbol s: "skip" for continue,
\* else the set the identifier is added to
SymbolGroup(s, env) ==
    IF s.section_index = 0 THEN "skip"
    ELSE IF env.ignore_weak_symbols /\ s.binding = "weak" THEN "skip"
    ELSE IF Len(s.name) < env.identifier_cutoff THEN "skip"
    ELSE IF s.type = "func"
         THEN IF identifier_name(s.name) \in env.lq_identifiers THEN "skip" ELSE "functions"
    ELSE IF s.type = "object"
         THEN IF identifier_name(s.name) \in env.lq_identifiers THEN "skip" ELSE "variables"
    ELSE "skip"

\* the body of the loop over the methods of a class, for the method named name
MethodKept(name, env) ==
    /\ ~(Len(name) < env.identifier_cutoff)
    /\ ~WhitespaceOnly(name)
    /\ name \notin {"<init>", "<clinit>"}
    /\ ~StartsWith(name, "access$")
    /\ name \notin env.lq_identifiers

\* the body of the loop over the fields of a class, for the field named name
FieldKept(name, env) ==
    /\ ~(Len(name) < env.identifier_cutoff)
    /\ ~WhitespaceOnly(name)
    /\ name \notin env.lq_identifiers

Emitted(name, identifier, group) == [name |-> name, identifier |-> identifier, group |-> group]

IdIdle ==
    /\ yara_env = [identifier_cutoff |-> 2, ignore_weak_symbols |-> FALSE,
                   lq_identifiers |-> {}, extracted |-> 0]
    /\ bang_label = "none"
    /\ strings = {}
    /\ functions = {}
    /\ variables = {}
    /\ emitted = {}
    /\ nsymbols = 0
    /\ generated = NotGenerated

\* the result pickle of the file is loaded and the loop over its strings is done
IdInit ==
    /\ yara_env \in YaraEnvs
    /\ bang_label \in {"elf", "dex"}
    /\ strings \in StringSets
    /\ functions = {}
    /\ variables = {}
    /\ emitted = {}
    /\ nsymbols = 0
    /\ generated = NotGenerated

\* one turn of the loop over results_data['metadata']['symbols']
ElfSymbol(s) ==
    /\ bang_label = "elf" /\ ~generated.called /\ nsymbols < MaxSymbols
    /\ nsymbols' = nsymbols + 1
    /\ LET group == SymbolGroup(s, yara_env)
           id == identifier_name(s.name)
       IN  /\ functions' = IF group = "functions" THEN functions \cup {id} ELSE functions
           /\ variables' = IF group = "variables" THEN variables \cup {id} ELSE variables
           /\ emitted' = IF group = "skip" THEN emitted
                         ELSE emitted \cup {Emitted(s.name, id, group)}
    /\ UNCHANGED <<yara_env, bang_label, strings, generated>>
    /\ UNCHANGED <<coreVars, lastVars, infoVars, extVars, scanVars, rpmVars, elfVars>>

\* one turn of the loop over the methods of a class
DexMethod(name) ==
    /\ bang_label = "dex" /\ ~generated.called /\ nsymbols < MaxSymbols
    /\ nsymbols' = nsymbols + 1
    /\ functions' = IF MethodKept(name, yara_env) THEN functions \cup {name} ELSE functions
    /\ emitted' = IF MethodKept(name, yara_env)
                  THEN emitted \cup {Emitted(name, name, "functions")} ELSE emitted
    /\ UNCHANGED <<yara_env, bang_label, strings, variables, generated>>
    /\ UNCHANGED <<coreVars, lastVars, infoVars, extVars, scanVars, rpmVars, elfVars>>

\* one turn of the loop over the fields of a class
DexField(name) ==
    /\ bang_label = "dex" /\ ~generated.called /\ nsymbols < MaxSymbols
    /\ nsymbols' = nsymbols + 1
    /\ variables' = IF FieldKept(name, yara_env) THEN variables \cup {name} ELSE variables
    /\ emitted' = IF FieldKept(name, yara_env)
                  THEN emitted \cup {Emitted(name, name, "variables")} ELSE emitted
    /\ UNCHANGED <<yara_env, bang_label, strings, functions, generated>>
    /\ UNCHANGED <<coreVars, lastVars, infoVars, extVars, scanVars, rpmVars, elfVars>>

\* if len(...) < heuristics['..._extracted']: ... = set(), for an ELF file only
AfterHeuristics(group) ==
    IF bang_label = "elf" /\ Cardinality(group) < yara_env.extracted THEN {} ELSE group

\* the loops are done: the heuristics, the test for no data, and generate_yara
Generate ==
    /\ bang_label # "none" /\ ~generated.called
    /\ AfterHeuristics(strings) \cup AfterHeuristics(functions)
           \cup AfterHeuristics(variables) # {}
    /\ generated' = [called |-> TRUE,
                     functions |-> AfterHeuristics(functions),
                     variables |-> AfterHeuristics(variables),
                     strings |-> AfterHeuristics(strings)]
    /\ UNCHANGED <<yara_env, bang_label, strings, functions, variables, emitted, nsymbols>>
    /\ UNCHANGED <<coreVars, lastVars, infoVars, extVars, scanVars, rpmVars, elfVars>>

IdNext ==
    \/ \E s \in Symbols : ElfSymbol(s)
    \/ \E name \in DexNames : DexMethod(name)
    \/ \E name \in DexNames : DexField(name)
    \/ Generate

(***************************************************************************)
(* unpack_subversion_hash of bangfilescans.py                              *)
(***************************************************************************)
\* most lines of a Subversion hash file
MaxSvnLines == 6

\* the lines of the model, each ending in a newline
SvnLines == {"K 1", "K 2", "a", "V 1", "END"}

SvnFiles == [suffix : {""}, lines : SeqsUpTo(SvnLines, MaxSvnLines)]

RECURSIVE SvnChars(_, _)
\* the characters of the first n lines, newlines included
SvnChars(lines, n) == IF n = 0 THEN 0 ELSE Len(lines[n]) + 1 + SvnChars(lines, n - 1)

\* fileresult.filesize of a file of these lines
SvnFilesize(file) == SvnChars(file.lines, Len(file.lines))

\* re.match(r'[\w\d\!\./-]+$', line.rstrip()) is not None
MatchesFilename(line) == line \in {"a", "END"}

\* re.match(r'K (\d+)$', line.rstrip()) and re.match(r'V (\d+)$', line.rstrip())
MatchesK(line) == line \in {"K 1", "K 2"}
MatchesV(line) == line = "V 1"

\* int(lineres.groups()[0])
LineLength(line) == IF line = "K 2" THEN 2 ELSE 1

RECURSIVE SvnLoop(_, _, _, _, _, _)
\* the loop over the lines from the n-th on; gives bytesread at its end
SvnLoop(lines, n, nextaction, linelength, bytesread, localbytesread) ==
    IF n > Len(lines) THEN bytesread
    ELSE LET line == lines[n]
             local == localbytesread + Len(line) + 1
             \* the state after the test of nextaction == 'filename'
             action == IF nextaction = "filename" THEN "new" ELSE nextaction
         IN  IF nextaction = "filename" /\ MatchesFilename(line)
             THEN SvnLoop(lines, n + 1, "new", linelength, bytesread, local)
             ELSE CASE action = "new" ->
                          IF ~MatchesK(line) THEN bytesread
                          ELSE SvnLoop(lines, n + 1, "data", LineLength(line), bytesread, local)
                    [] action = "data" ->
                          IF linelength # Len(line) THEN bytesread
                          ELSE SvnLoop(lines, n + 1, "value", linelength, bytesread, local)
                    [] action = "value" ->
                          IF line = "END"
                          THEN SvnLoop(lines, n + 1, "filename", linelength,
                                       bytesread + local, 0)
                          ELSE IF ~MatchesV(line) THEN bytesread
                          ELSE SvnLoop(lines, n + 1, "data", LineLength(line), bytesread, local)

unpack_subversion_hash(file) ==
    IF SvnLoop(file.lines, 1, "new", 0, 0, 0) # SvnFilesize(file)
    THEN Failure
    ELSE Success(SvnFilesize(file), <<"subversion hash">>)

SvnInit ==
    /\ scan_file \in SvnFiles
    /\ scan_verifier = "none"
    /\ scan_result = NoResult

UnpackSubversionHashCall ==
    /\ scan_verifier = "none" /\ scan_file \in SvnFiles
    /\ scan_verifier' = "unpack_subversion_hash"
    /\ scan_result' = unpack_subversion_hash(scan_file)
    /\ UNCHANGED scan_file
    /\ UNCHANGED <<coreVars, lastVars, infoVars, extVars, rpmVars, elfVars, idVars>>

SvnNext == UnpackSubversionHashCall

(***************************************************************************)
(* ExtractedParser and SynthesizingParser built by with_size, and          *)
(* ExtractingParser built by with_parts: parse_from_offset is pass         *)
(***************************************************************************)
\* most parts handed to with_parts
MaxParts == 2

SizedKinds == {"extracted", "synthesizing"}

\* a part: its offset and its length
Parts == {<<o, l>> : o \in 0..1, l \in 0..MaxSeek}

RECURSIVE SumLengths(_, _)
\* sum(p[1] for p in parts), over the parts from the n-th on
SumLengths(parts, n) ==
    IF n > Len(parts) THEN 0 ELSE parts[n][2] + SumLengths(parts, n + 1)

\* with_size(from_meta_directory, offset, size): o.unpacked_size = size
with_size(size) == size

\* with_parts(from_meta_directory, parts): o.unpacked_size = sum of the lengths
with_parts(parts) == SumLengths(parts, 1)

VariantIdle ==
    /\ vp_kind = "none"
    /\ vp_offset = 0
    /\ vp_parts = <<>>
    /\ vp_unpacked_size = 0
    /\ vp_pc = "off"

\* the object a class method returned
VariantInit ==
    /\ vp_kind \in SizedKinds \cup {"extracting"}
    /\ vp_pc = "built"
    /\ IF vp_kind \in SizedKinds
       THEN /\ vp_offset \in 0..MaxFileLen
            /\ vp_parts = <<>>
            /\ \E size \in 0..MaxFileLen : vp_unpacked_size = with_size(size)
       ELSE /\ vp_offset = 0
            /\ vp_parts \in SeqsUpTo(Parts, MaxParts)
            /\ vp_unpacked_size = with_parts(vp_parts)

\* parse_from_offset of the three classes: pass
VariantParseFromOffset ==
    /\ vp_pc = "built"
    /\ vp_pc' = "returned"
    /\ UNCHANGED <<vp_kind, vp_offset, vp_parts, vp_unpacked_size>>
    /\ UNCHANGED <<coreVars, laterVars, ruleVars, nameVars, aggVars>>

VariantNext == VariantParseFromOffset

(***************************************************************************)
(* generate_yara of yara_from_bang.py and of yara_from_source.py: the      *)
(* condition block                                                         *)
(***************************************************************************)
\* most identifiers in one group
MaxIds == 3

Max(a, b) == IF a > b THEN a ELSE b

RuleVariants == {"bang", "source"}

\* the operators the configuration key operator may name
Operators == {"and", "or"}

\* the identifier groups
Groups == {"strings", "functions", "variables"}

\* the key of heuristics for a group, as in 'strings_minimum_present'
HKey(g, k) == g \o "_" \o k

\* the values of the three percentage keys and of the three matched keys
Percentages ==
    {[strings |-> 1, functions |-> 2, variables |-> 50],
     [strings |-> 2, functions |-> 100, variables |-> 1],
     [strings |-> 100, functions |-> 1, variables |-> 2]}
Matched ==
    {[strings |-> 1, functions |-> 1, variables |-> 1],
     [strings |-> 2, functions |-> 1, variables |-> 2]}

MakeHeuristics(minimum, percentage, matched) ==
    [k \in {HKey(g, x) : g \in Groups, x \in {"minimum_present", "percentage", "matched"}} |->
        LET g == CHOOSE gg \in Groups :
                     k \in {HKey(gg, x) : x \in {"minimum_present", "percentage", "matched"}}
        IN  CASE k = HKey(g, "minimum_present") -> minimum[g]
              [] k = HKey(g, "percentage") -> percentage[g]
              [] k = HKey(g, "matched") -> matched[g]]

Heuristics ==
    {MakeHeuristics(minimum, percentage, matched) :
        minimum \in [Groups -> 1..(MaxIds - 1)],
        percentage \in Percentages, matched \in Matched}

\* the identifiers of a group: n of them, the names do not matter here
Identifiers == {1..n : n \in 0..MaxIds}

\* x == set() for a parameter x: yara_from_bang hands in sets,
\* yara_from_source hands in sorted lists, and a list never equals a set
EqualsEmptySet(variant, x) == variant = "bang" /\ x = {}

\* x != set() / x != [] at the head of each block: true for a non-empty
\* parameter in both files
NotEmpty(x) == x # {}

\* num_strings, num_funcs, num_vars
NumMatches(variant, n, percentage, matched) ==
    IF variant = "bang"
    THEN Max(n \div percentage, matched)
    ELSE \* int(max(n / 100 * percentage, matched))
         Max((n * percentage) \div 100, matched)

\* one clause of the condition, and what is written after it
Clause(variant, h, g, x, joined) ==
    LET n == Cardinality(x)
    IN  IF n >= h[HKey(g, "minimum_present")]
        THEN [group |-> g, any |-> FALSE,
              num |-> NumMatches(variant, n, h[HKey(g, "percentage")], h[HKey(g, "matched")]),
              joiner |-> IF joined THEN "and" ELSE "none"]
        ELSE [group |-> g, any |-> TRUE, num |-> 0,
              joiner |-> IF joined THEN "and" ELSE "none"]

\* the condition block generate_yara writes
Condition(variant, h, groups) ==
    LET strs == groups["strings"]
        funs == groups["functions"]
        vrs == groups["variables"]
    IN  (IF NotEmpty(strs)
         THEN <<Clause(variant, h, "strings", strs,
                       ~(EqualsEmptySet(variant, funs) /\ EqualsEmptySet(variant, vrs)))>>
         ELSE <<>>)
        \o (IF NotEmpty(funs)
            THEN <<Clause(variant, h, "functions", funs, ~EqualsEmptySet(variant, vrs))>>
            ELSE <<>>)
        \o (IF NotEmpty(vrs)
            THEN <<Clause(variant, h, "variables", vrs, FALSE)>>
            ELSE <<>>)

RuleIdle ==
    /\ rule_variant = "none"
    /\ rule_operator = "none"
    /\ rule_heuristics = EmptyDict
    /\ rule_groups = EmptyDict
    /\ rule_condition = <<>>
    /\ rule_written = FALSE

\* the callers hand over at least one non-empty group
RuleInit ==
    /\ rule_variant \in RuleVariants
    /\ rule_operator \in Operators
    /\ rule_heuristics \in Heuristics
    /\ rule_groups \in [Groups -> Identifiers]
    /\ \E g \in Groups : rule_groups[g] # {}
    /\ rule_condition = <<>>
    /\ rule_written = FALSE

GenerateYara(variant) ==
    /\ rule_variant = variant /\ ~rule_written
    /\ rule_condition' = Condition(variant, rule_heuristics, rule_groups)
    /\ rule_written' = TRUE
    /\ UNCHANGED <<rule_variant, rule_operator, rule_heuristics, rule_groups>>
    /\ UNCHANGED <<coreVars, laterVars, variantVars, nameVars, aggVars>>

RuleNext == \E variant \in RuleVariants : GenerateYara(variant)

(***************************************************************************)
(* process_directory of yara_from_bang.py: the names of the rule files     *)
(***************************************************************************)
\* most files in the scantree of one package
MaxFiles == 2

PackageNames == {"apt", "gzip"}
BinaryNames == {"ls", "methods"}
Sha256s == {"0a", "1b"}

\* a file of the scantree: its name, its sha256, its labels, and whether
\* any identifier group is left when generate_yara would be called
ScantreeFiles ==
    [name : BinaryNames, sha256 : Sha256s, label : {"elf", "dex", "text"},
     has_identifiers : BOOLEAN]

\* yara_directory / ("%s-%s.yara" % (metadata['package'], metadata['name']))
RuleFileName(meta) == meta.package \o "-" \o meta.name \o ".yara"

\* metadata as process_directory fills it for a file
FileMetadata(package, f) == [name |-> f.name, sha256 |-> f.sha256, package |-> package]

NameIdle ==
    /\ nm_package = "none"
    /\ nm_scantree = <<>>
    /\ nm_index = 0
    /\ nm_writes = <<>>

NameInit ==
    /\ nm_package \in PackageNames
    /\ nm_scantree \in SeqsUpTo(ScantreeFiles, MaxFiles)
    /\ nm_index = 0
    /\ nm_writes = <<>>

\* one round of the loop over the scantree
ProcessFile ==
    /\ nm_index < Len(nm_scantree)
    /\ LET f == nm_scantree[nm_index + 1]
       IN  nm_writes' =
               IF f.label \in {"elf", "dex"} /\ f.has_identifiers
               THEN Append(nm_writes,
                           [file |-> RuleFileName(FileMetadata(nm_package, f)),
                            sha256 |-> f.sha256])
               ELSE nm_writes
    /\ nm_index' = nm_index + 1
    /\ UNCHANGED <<nm_package, nm_scantree>>
    /\ UNCHANGED <<coreVars, laterVars, variantVars, ruleVars, aggVars>>

NameNext == ProcessFile

(***************************************************************************)
(* yara_from_source.py: extract_identifiers on every version of a package, *)
(* then the loop of main that aggregates the versions for one language     *)
(***************************************************************************)
\* most versions of the package
MaxVersions == 2

\* the identifiers a JSON file may hold
JsonStrings == {"s", "tt"}
JsonFunctions == {"f", "gg"}
JsonVariables == {"vv"}

\* what the JSON file of one version holds
Versions ==
    [strings : SUBSET JsonStrings, functions : SUBSET JsonFunctions,
     variables : SUBSET JsonVariables]

\* yara_env with the cutoffs and the low quality identifiers, and the language
SourceEnvs ==
    {[language |-> "c", identifier_cutoff |-> 1, string_min_cutoff |-> 2,
      string_max_cutoff |-> 2, lq_functions |-> {"f"}, lq_variables |-> {}],
     [language |-> "java", identifier_cutoff |-> 2, string_min_cutoff |-> 1,
      string_max_cutoff |-> 1, lq_functions |-> {"gg"}, lq_variables |-> {}]}

NoIdentifiers == [g \in Groups |-> {}]

\* the three loops that fill strings, functions and variables from a JSON file
FilteredIdentifiers(env, version) ==
    [g \in Groups |->
        CASE g = "strings" ->
                 {x \in version.strings :
                     Len(x) >= env.string_min_cutoff /\ Len(x) <= env.string_max_cutoff}
          [] g = "functions" ->
                 {x \in version.functions :
                     /\ ~(Len(x) < env.identifier_cutoff)
                     /\ ~(env.language = "c" /\ x \in env.lq_functions)}
          [] g = "variables" ->
                 {x \in version.variables :
                     /\ ~(Len(x) < env.identifier_cutoff)
                     /\ ~(env.language = "c" /\ x \in env.lq_variables)}]

\* the first version replaces the empty intersection, the later ones narrow it
IntersectionNoStart(is_start, acc, x) == acc \cap x

\* if is_start: intersection.update(x) else: intersection &= x
IntersectionStep(is_start, acc, x) == IF is_start THEN acc \cup x ELSE acc \cap x

\* a call of generate_yara: the archive named in the metadata and the groups
RuleCall(archive, groups) == [archive |-> archive, groups |-> groups]

AggIdle ==
    /\ ag_env = EmptyDict
    /\ ag_packages = <<>>
    /\ ag_pc = "off"
    /\ ag_index = 0
    /\ ag_is_start = FALSE
    /\ ag_union = NoIdentifiers
    /\ ag_intersection = NoIdentifiers
    /\ ag_rules = <<>>

AggInit ==
    /\ ag_env \in SourceEnvs
    /\ ag_packages \in SeqsUpTo(Versions, MaxVersions)
    /\ ag_pc = "extract"
    /\ ag_index = 0
    /\ ag_is_start = TRUE
    /\ ag_union = NoIdentifiers
    /\ ag_intersection = NoIdentifiers
    /\ ag_rules = <<>>

\* extract_identifiers on the JSON file of the next version
ExtractIdentifiers ==
    /\ ag_pc = "extract" /\ ag_index < Len(ag_packages)
    /\ LET ids == FilteredIdentifiers(ag_env, ag_packages[ag_index + 1])
       IN  ag_rules' =
               IF ~(ids["strings"] = {} /\ ids["variables"] = {} /\ ids["functions"] = {})
               THEN Append(ag_rules, RuleCall("archive", ids))
               ELSE ag_rules
    /\ ag_index' = ag_index + 1
    /\ UNCHANGED <<ag_env, ag_packages, ag_pc, ag_is_start, ag_union, ag_intersection>>
    /\ UNCHANGED <<coreVars, laterVars, variantVars, ruleVars, nameVars>>

\* process_queue.join() returns and main starts the loop over the versions
StartAggregation ==
    /\ ag_pc = "extract" /\ ag_index = Len(ag_packages)
    /\ ag_pc' = "aggregate"
    /\ ag_index' = 0
    /\ UNCHANGED <<ag_env, ag_packages, ag_is_start, ag_union, ag_intersection, ag_rules>>
    /\ UNCHANGED <<coreVars, laterVars, variantVars, ruleVars, nameVars>>

\* one round of for package in packages
AggregatePackage ==
    /\ ag_pc = "aggregate" /\ ag_index < Len(ag_packages)
    /\ LET ids == FilteredIdentifiers(ag_env, ag_packages[ag_index + 1])
       IN  /\ ag_union' = [g \in Groups |-> ag_union[g] \cup ids[g]]
           /\ ag_intersection' =
                  [g \in Groups |-> IntersectionStep(ag_is_start, ag_intersection[g], ids[g])]
    /\ ag_is_start' = FALSE
    /\ ag_index' = ag_index + 1
    /\ UNCHANGED <<ag_env, ag_packages, ag_pc, ag_rules>>
    /\ UNCHANGED <<coreVars, laterVars, variantVars, ruleVars, nameVars>>

EndAggregation ==
    /\ ag_pc = "aggregate" /\ ag_index = Len(ag_packages)
    /\ ag_pc' = "union"
    /\ UNCHANGED <<ag_env, ag_packages, ag_index, ag_is_start, ag_union, ag_intersection,
                   ag_rules>>
    /\ UNCHANGED <<coreVars, laterVars, variantVars, ruleVars, nameVars>>

\* the three divisions by len(strings), len(functions) and len(variables)
AdaptRaises(groups) == \E g \in Groups : Cardinality(groups[g]) = 0

\* strings == set() and variables == set() and functions == set(), on the
\* sorted lists of the union
UnionIsEmptySet(groups) == \A g \in Groups : EqualsEmptySet("source", groups[g])

\* the heuristics are adapted and the union rule is written
EmitUnion ==
    /\ ag_pc = "union"
    /\ IF AdaptRaises(ag_union)
       THEN \* ZeroDivisionError leaves main
            ag_pc' = "raised" /\ UNCHANGED ag_rules
       ELSE /\ ag_pc' = "intersection"
            /\ ag_rules' = IF ~UnionIsEmptySet(ag_union)
                           THEN Append(ag_rules, RuleCall("union", ag_union))
                           ELSE ag_rules
    /\ UNCHANGED <<ag_env, ag_packages, ag_index, ag_is_start, ag_union, ag_intersection>>
    /\ UNCHANGED <<coreVars, laterVars, variantVars, ruleVars, nameVars>>

\* the intersection rule is written
EmitIntersection ==
    /\ ag_pc = "intersection"
    /\ ag_pc' = "done"
    /\ ag_rules' = IF ~(\A g \in Groups : ag_intersection[g] = {})
                   THEN Append(ag_rules, RuleCall("intersection", ag_intersection))
                   ELSE ag_rules
    /\ UNCHANGED <<ag_env, ag_packages, ag_index, ag_is_start, ag_union, ag_intersection>>
    /\ UNCHANGED <<coreVars, laterVars, variantVars, ruleVars, nameVars>>

AggNext ==
    \/ ExtractIdentifiers
    \/ StartAggregation
    \/ AggregatePackage
    \/ EndAggregation
    \/ EmitUnion
    \/ EmitIntersection

(***************************************************************************)
(* The specifications                                                      *)
(***************************************************************************)
\* none of the specifications that came last is at work
LastIdle == VariantIdle /\ RuleIdle /\ NameIdle /\ AggIdle

\* none of the specifications of the second group is at work
LaterIdleBefore == InfoIdle /\ ExtIdle /\ ScanIdle /\ RpmIdle /\ ElfIdle /\ IdIdle

\* none of the later specifications is at work
LaterIdle == LaterIdleBefore /\ LastIdle

Init == ParserInit /\ UnpackIdle /\ YaraIdle /\ LaterIdle
Next == ParserNext
Spec == Init /\ [][Next]_vars

UnpackSpecInit == ParserIdle /\ UnpackInit /\ YaraIdle /\ LaterIdle
UnpackSpec == UnpackSpecInit /\ [][UnpackNext]_vars

YaraSpecInit == ParserIdle /\ UnpackIdle /\ YaraInit /\ LaterIdle
YaraSpec == YaraSpecInit /\ [][YaraNext]_vars

\* none of the first three specifications is at work
CoreIdle == ParserIdle /\ UnpackIdle /\ YaraIdle

InfoSpecInit == CoreIdle /\ InfoInit /\ ExtIdle /\ ScanIdle /\ RpmIdle /\ ElfIdle /\ IdIdle /\ LastIdle
InfoSpec == InfoSpecInit /\ [][InfoNext]_vars

ExtSpecInit == CoreIdle /\ InfoIdle /\ ExtInit /\ ScanIdle /\ RpmIdle /\ ElfIdle /\ IdIdle /\ LastIdle
ExtSpec == ExtSpecInit /\ [][ExtNext]_vars

ScanSpecInit == CoreIdle /\ InfoIdle /\ ExtIdle /\ ScanInit /\ RpmIdle /\ ElfIdle /\ IdIdle /\ LastIdle
ScanSpec == ScanSpecInit /\ [][ScanNext]_vars

RpmSpecInit == CoreIdle /\ InfoIdle /\ ExtIdle /\ ScanIdle /\ RpmInit /\ ElfIdle /\ IdIdle /\ LastIdle
RpmSpec == RpmSpecInit /\ [][RpmNext]_vars

ElfSpecInit == CoreIdle /\ InfoInit /\ ExtIdle /\ ScanIdle /\ RpmIdle /\ ElfInit /\ IdIdle /\ LastIdle
ElfSpec == ElfSpecInit /\ [][ElfNext]_vars

IdSpecInit == CoreIdle /\ InfoIdle /\ ExtIdle /\ ScanIdle /\ RpmIdle /\ ElfIdle /\ IdInit /\ LastIdle
IdSpec == IdSpecInit /\ [][IdNext]_vars

RuleSpecInit == CoreIdle /\ LaterIdleBefore /\ VariantIdle /\ RuleInit /\ NameIdle /\ AggIdle
RuleSpec == RuleSpecInit /\ [][RuleNext]_vars

NameSpecInit == CoreIdle /\ LaterIdleBefore /\ VariantIdle /\ RuleIdle /\ NameInit /\ AggIdle
NameSpec == NameSpecInit /\ [][NameNext]_vars

AggSpecInit == CoreIdle /\ LaterIdleBefore /\ VariantIdle /\ RuleIdle /\ NameIdle /\ AggInit
AggSpec == AggSpecInit /\ [][AggNext]_vars

SvnSpecInit ==
    CoreIdle /\ InfoIdle /\ ExtIdle /\ SvnInit /\ RpmIdle /\ ElfIdle /\ IdIdle /\ LastIdle
SvnSpec == SvnSpecInit /\ [][SvnNext]_vars

\* every parser class: the ones that run UnpackParser.parse_from_offset and
\* the ones that override it with pass
VariantSpecInit ==
    \/ ParserInit /\ UnpackIdle /\ YaraIdle /\ LaterIdle
    \/ CoreIdle /\ LaterIdleBefore /\ VariantInit /\ RuleIdle /\ NameIdle /\ AggIdle
VariantSpec == VariantSpecInit /\ [][ParserNext \/ VariantNext]_vars

(***************************************************************************)
(* Claims about OffsetInputFile and parse_from_offset, checked under Spec  *)
(***************************************************************************)
\* the last call on the stream was seek(p, SEEK_SET) with p >= 0 and it returned
AfterSeekSet ==
    /\ lastOp.op = "seek" /\ lastOp.whence = "SEEK_SET"
    /\ lastOp.arg >= 0 /\ lastOp.ret >= 0

\* C1: for every base offset b and every p >= 0, right after seek(p, SEEK_SET)
\* the underlying file is at b + p and tell() gives p; after seek(0) a read of
\* one byte gives the byte at position b of the underlying file.
C1_SeekSetRebases ==
    AfterSeekSet =>
        /\ pos = offset + lastOp.arg
        /\ Tell = lastOp.arg
        /\ (lastOp.arg = 0 /\ offset < Len(data))
               => ReadBytes(data, pos, 1) = <<data[offset + 1]>>

C1_Witness ==
    /\ AfterSeekSet /\ InParse
    /\ offset >= 1 /\ lastOp.arg >= 1 /\ pos < Len(data)

PfoOrder == <<"seek", "parse", "calculate_unpacked_size", "check_condition">>

\* C2: parse_from_offset calls seek(0), parse(), calculate_unpacked_size() and
\* the check in this order; the check raises UnpackParserException exactly when
\* unpacked_size is not > 0; when parse() raises, calculate_unpacked_size() has
\* not been called and the exception is what leaves parse_from_offset.
C2_ParseFromOffsetOrder ==
    /\ Len(calls) <= Len(PfoOrder)
    /\ calls = SubSeq(PfoOrder, 1, Len(calls))
    /\ (Len(calls) >= 1 /\ lastOp.op = "seek" /\ pc = "seeked") => Tell = 0
    /\ pc = "sized" => size_set
    /\ Len(calls) = Len(PfoOrder) =>
           IF unpacked_size > 0
           THEN pc = "done" /\ exc = "none"
           ELSE pc = "raised" /\ exc = "UnpackParserException"
    /\ pc = "done" => Len(calls) = Len(PfoOrder)
    /\ (pc = "raised" /\ Len(calls) < Len(PfoOrder)) =>
           /\ calls = <<"seek", "parse">>
           /\ exc = "UnpackParserException"

C2_Witness ==
    /\ kind = "utmp" /\ pc = "raised" /\ offset >= 1
    /\ calls = PfoOrder /\ unpacked_size <= 0

\* the bytes from the base offset to the end of the file are one padding
\* character repeated, at least once
RegionIsPadding ==
    /\ offset < Len(data)
    /\ <<data[offset + 1]>> \in valid_padding_chars
    /\ \A i \in (offset + 1)..Len(data) : data[i] = data[offset + 1]

\* PaddingParser.parse has run
PaddingParsed == kind = "padding" /\ pc \in {"parsed", "sized", "done", "raised"}

\* C7: after PaddingParser.parse, is_padding is true (and write_info adds the
\* label padding) only if the first byte is 0x00 or 0xFF and every byte from
\* the region start to the end of the stream equals it.
C7_PaddingOnlyToEndOfStream ==
    /\ (PaddingParsed /\ is_padding) => RegionIsPadding
    /\ (kind = "padding" /\ info_written /\ "labels" \in DOMAIN info
            /\ Len(info["labels"]) >= 1
            /\ info["labels"][Len(info["labels"])] = "padding") => RegionIsPadding

\* C8: on n >= 1 copies of one padding byte parse_from_offset succeeds with
\* unpacked_size = n, write_info adds the label padding and unpack gives no child.
C8_PaddingWholeFile ==
    (kind = "padding" /\ RegionIsPadding) =>
        /\ pc # "raised"
        /\ pc \in {"parsed", "sized", "done"} => unpacked_size = Len(data) - offset
        /\ info_written =>
               /\ "labels" \in DOMAIN info
               /\ Len(info["labels"]) >= 1
               /\ info["labels"][Len(info["labels"])] = "padding"
        /\ unpacked => children = <<>>

C8_Witness ==
    /\ kind = "padding" /\ RegionIsPadding /\ offset = 0 /\ Len(data) >= 2
    /\ pc = "done" /\ info_written /\ unpacked /\ unpacked_size = Len(data)

\* C9: for a parser with the default calculate_unpacked_size, unpacked_size is
\* the number of bytes consumed from the start of the parser's region, the
\* position relative to the base offset at the end of parse, whatever the base.
C9_DefaultUnpackedSize ==
    (kind = "utmp" /\ size_set) =>
        /\ unpacked_size = consumed
        /\ unpacked_size = pos - offset

C9_Witness ==
    /\ kind = "utmp" /\ pc = "done" /\ offset >= 1 /\ unpacked_size >= 1

\* C10: size is the underlying file size minus the base offset, and no read,
\* seek, tell or fileno call changes size or the base offset.
C10_SizeFixed ==
    /\ [](Size = Len(data) - offset)
    /\ [][Size' = Size /\ offset' = offset /\ fsize' = fsize]_vars

C10_Witness ==
    /\ InParse /\ lastOp.op = "size" /\ offset >= 1 /\ consumed >= 1
    /\ lastOp.ret = Len(data) - offset

(***************************************************************************)
(* Claims about the unpack() generators, checked under UnpackSpec          *)
(***************************************************************************)
\* the positions of events at which statement st ran
Positions(st) == {i \in 1..Len(events) : events[i] = st}

\* a generator of ExtractedParser or SynthesizingParser
YieldsItself == ukind \in {"extracted", "synthesizing"}

\* C3: iterating unpack(md) of ExtractedParser and of SynthesizingParser calls
\* md.write_ahead() exactly once and before md is handed to the loop, gives
\* exactly one item, md itself, and md is never put on the queue before its
\* info was committed by write_ahead.
C3_WriteAheadBeforeYield ==
    YieldsItself =>
        /\ Cardinality(Positions(Stmt("write_ahead", MdItself))) <= 1
        /\ \A i \in 1..Len(events) :
               events[i].op \in {"yield", "enqueue"} =>
                   /\ events[i].item = MdItself
                   /\ \E j \in 1..(i - 1) : events[j] = Stmt("write_ahead", MdItself)
        /\ Cardinality(Positions(Stmt("yield", MdItself))) <= 1
        /\ held # NoItem => held = MdItself
        /\ gen_done =>
               /\ Cardinality(Positions(Stmt("write_ahead", MdItself))) = 1
               /\ Cardinality(Positions(Stmt("yield", MdItself))) = 1
               /\ uqueue = <<MdItself>>

C3_Witness ==
    /\ ukind = "extracted" /\ gen_done
    /\ events = <<Stmt("write_ahead", MdItself), Stmt("yield", MdItself),
                  Stmt("enqueue", MdItself)>>

\* C4: RpmUnpackParser.unpack and ElfUnpackParser.unpack hand each child to
\* the loop only after the child's bytes were written and the
\* unpack_regular_file scope of that child has exited.
C4_YieldAfterScopeExit ==
    ukind \in {"rpm", "elf"} =>
        \A i \in 1..Len(events) :
            events[i].op = "yield" =>
                /\ \E j \in 1..(i - 1) : events[j] = Stmt("write", events[i].item)
                /\ \E j \in 1..(i - 1) : events[j] = Stmt("exit", events[i].item)

(***************************************************************************)
(* Claims about the yara_from_bang workers, checked under YaraSpec         *)
(***************************************************************************)
\* the directories whose rule loop has run
Generated == {d \in 1..Len(dirs) : yara_written[d] # "not_reached"}

\* C5: of two queued result directories whose root file has the same sha256,
\* at most one passes the duplicate check and goes on to generate rules.
C5_AtMostOneGenerates ==
    \A d1, d2 \in Generated :
        (d1 # d2 /\ dirs[d1].root # 0 /\ dirs[d2].root # 0)
            => dirs[d1].root # dirs[d2].root

\* directory d has been taken from the queue
Taken(d) == \A i \in 1..Len(yaraqueue) : yaraqueue[i] # d

\* a running worker is at work on directory d
InWork(d) == \E w \in Workers : wdir[w] = d /\ wpc[w] \notin {"dead", "terminated"}

\* C6: with at least one worker, every directory taken from the queue gets
\* exactly one task_done, so join() returns and main terminates the workers
\* and returns: the run never stops before main has returned.
C6_RunDrains ==
    threads >= 1 =>
        /\ \A d \in 1..Len(dirs) :
               /\ task_done_calls[d] <= 1
               /\ (Taken(d) /\ ~InWork(d)) => task_done_calls[d] = 1
        /\ mpc # "returned" => ENABLED YaraNext

(***************************************************************************)
(* Claims about write_info, checked under InfoSpec                         *)
(***************************************************************************)
\* no element of sequence q occurs in it twice
NoDuplicates(q) == \A m, n \in 1..Len(q) : q[m] = q[n] => m = n

\* C11: the labels of an info record are a set: after any sequence of
\* write_info calls on the info of one MetaDirectory no tag occurs more than
\* once in info['labels'].
C11_LabelsAreASet ==
    "labels" \in DOMAIN md_info => NoDuplicates(md_info["labels"])

\* C12: after write_info of any parser variant was applied to an info record
\* that was empty before, the record has at least the keys labels and metadata.
C12_InfoHasLabelsAndMetadata ==
    (DOMAIN md_info0 = {} /\ writers # <<>>) =>
        {"labels", "metadata"} \subseteq DOMAIN md_info

\* C13: after ExtractingParser.with_parts(...).write_info(md),
\* md.info['unpack_parser'] equals 'extractingparser'.
C13_ExtractingParserRecorded ==
    (writers # <<>> /\ writers[Len(writers)].cls = "extracting") =>
        /\ "unpack_parser" \in DOMAIN md_info
        /\ md_info["unpack_parser"] = "extractingparser"

(***************************************************************************)
(* Claims about is_valid_extension, checked under ExtSpec                  *)
(***************************************************************************)
\* C14: extension matching is case-insensitive: for every parser class and
\* every string e, is_valid_extension gives the same result for e and for
\* any re-casing of e.
C14_ExtensionCaseInsensitive ==
    ext_result # "none" =>
        \A e2 \in Recasings(ext) : PyBool(is_valid_extension(ext_cls, e2)) = ext_result

(***************************************************************************)
(* Claims about the verifiers of bangfilescans, checked under ScanSpec     *)
(***************************************************************************)
\* C15: validation failures are non-fatal: a verifier given an existing file
\* whose content is not its format, content that cannot be decoded as text
\* included, returns status False with error.fatal False and raises nothing.
C15_ValidationFailureNonFatal ==
    (scan_verifier # "none" /\ ~Decodable(scan_file)) =>
        /\ scan_result.status = "False"
        /\ scan_result.fatal = FALSE

\* the labels of the result include lab
HasLabel(lab) == \E n \in 1..Len(scan_result.labels) : scan_result.labels[n] = lab

\* C18: for every text file whose first line is '#!/usr/bin/env python',
\* whatever its file name, unpack_script returns status True with labels that
\* include script and python and with length equal to the file size.
C18_PythonShebangIsScript ==
    (/\ scan_verifier = "unpack_script"
     /\ Decodable(scan_file)
     /\ scan_file.lines # <<>>
     /\ scan_file.lines[1] = "#!/usr/bin/env python") =>
        /\ scan_result.status = "True"
        /\ HasLabel("script") /\ HasLabel("python")
        /\ scan_result.length = filesize(scan_file)

(***************************************************************************)
(* Claims about RpmUnpackParser, checked under RpmSpec                     *)
(***************************************************************************)
\* the payload formats the header of the file names
FormatsNamed ==
    {rpm_data.index_records[n].value :
        n \in {m \in 1..Len(rpm_data.index_records) :
                  rpm_data.index_records[m].header_tag = "payload_format"}}

\* what C16 says apart from the labels: version and type in the metadata, one
\* child named after the payload format, other payload formats rejected
RpmMetadataAndChild ==
    /\ rpm_pc = "parsed" =>
           /\ rpm_self.payload_format \in {"cpio", "drpm"}
           /\ FormatsNamed = {rpm_self.payload_format}
    /\ (rpm_pc = "parsed" /\ DOMAIN rpm_info # {}) =>
           /\ {"labels", "metadata"} \subseteq DOMAIN rpm_info
           /\ {"version", "type"} \subseteq DOMAIN rpm_info["metadata"]
           /\ rpm_info["metadata"]["version"].major = rpm_data.major
           /\ rpm_info["metadata"]["version"].minor = 0
           /\ rpm_info["metadata"]["type"] \in {"binary", "source"}
           /\ rpm_info["metadata"]["type"] = rpm_data.lead_type
    /\ (rpm_pc = "parsed" /\ rpm_unpacked) =>
           rpm_children = IF rpm_self.payload_format = "drpm"
                          THEN <<"drpm">> ELSE <<"cpio">>
    /\ (rpm_pc # "new" /\ FormatsNamed \cap {"cpio", "drpm"} = {}) => rpm_pc = "raised"

\* C16 (as stated): for every input that RpmUnpackParser parses successfully
\* the labels are ["rpm"], the metadata has version.major, version.minor and
\* a type that is binary or source, unpack yields exactly one child, named
\* drpm when the payload format is drpm and cpio otherwise; parse rejects
\* every payload format other than cpio and drpm.
C16_RpmAsStated ==
    /\ RpmMetadataAndChild
    /\ (rpm_pc = "parsed" /\ DOMAIN rpm_info # {}) => rpm_info["labels"] = <<"rpm">>

\* C16 (amended): the same, with labels ["rpm"] when the payload format is
\* cpio and ["rpm", "delta rpm"] when it is drpm.
C16_RpmLabelsMetadataChild ==
    /\ RpmMetadataAndChild
    /\ (rpm_pc = "parsed" /\ DOMAIN rpm_info # {}) =>
           rpm_info["labels"] = IF rpm_self.payload_format = "drpm"
                                THEN <<"rpm", "delta rpm">> ELSE <<"rpm">>

C16_Witness ==
    /\ rpm_pc = "parsed" /\ rpm_self.payload_format = "drpm"
    /\ rpm_self.compressor = "xz"
    /\ DOMAIN rpm_info # {} /\ rpm_children = <<"drpm">>

(***************************************************************************)
(* Claims about ElfUnpackParser.write_info, checked under ElfSpec          *)
(***************************************************************************)
\* the file has a PT_GNU_RELRO program header
HasRelroHeader ==
    \E n \in 1..Len(elf_data.program_headers) :
        elf_data.program_headers[n].type = "gnu_relro"

\* a dynamic array of the file, in a section or in a segment of type
\* dynamic, has an entry DT_FLAGS with bind_now or DT_FLAGS_1 with now
HasBindNowEntry ==
    \/ \E n \in 1..Len(elf_data.section_headers) :
           /\ elf_data.section_headers[n].type = "dynamic"
           /\ \E m \in 1..Len(elf_data.section_headers[n].entries) :
                  /\ elf_data.section_headers[n].entries[m].tag_enum \in {"flags", "flags_1"}
                  /\ elf_data.section_headers[n].entries[m].bind_now
    \/ \E n \in 1..Len(elf_data.program_headers) :
           /\ elf_data.program_headers[n].type = "dynamic"
           /\ \E m \in 1..Len(elf_data.program_headers[n].entries) :
                  /\ elf_data.program_headers[n].entries[m].tag_enum \in {"flags", "flags_1"}
                  /\ elf_data.program_headers[n].entries[m].bind_now

\* metadata.security of the written info holds tag
SecurityHas(tag) ==
    \E n \in 1..Len(md_info["metadata"]["security"]) :
        md_info["metadata"]["security"][n] = tag

\* C17: for an ELF with a PT_GNU_RELRO program header and a dynamic entry with
\* the bind_now flag, metadata.security written by ElfUnpackParser contains
\* 'full relro'; 'full relro' is added only when a GNU_RELRO program header
\* was seen.
C17_FullRelro ==
    elf_written =>
        /\ (HasRelroHeader /\ HasBindNowEntry) => SecurityHas("full relro")
        /\ SecurityHas("full relro") => HasRelroHeader

(***************************************************************************)
(* Claims about the identifiers of a rule, checked under IdSpec            *)
(***************************************************************************)
\* identifier is name cut where an occurrence of sep begins
CutAt(name, sep, identifier) ==
    \E n \in 1..(Len(name) - Len(sep) + 1) :
        /\ SubSeq(name, n, n + Len(sep) - 1) = sep
        /\ identifier = SubSeq(name, 1, n - 1)

\* the only symbol the loop has seen is foo@@GLIBC_2.2.5, kept as a function,
\* under identifier_cutoff = 2 and no low quality identifiers
OnlyFooSeen ==
    /\ bang_label = "elf" /\ nsymbols = 1
    /\ yara_env.identifier_cutoff = 2 /\ yara_env.lq_identifiers = {}
    /\ \E r \in emitted : r.name = "foo@@GLIBC_2.2.5" /\ r.group = "functions"

C20_ShortNamesDropped ==
    generated.called =>
        \A id \in generated.functions \cup generated.variables :
            Len(id) >= yara_env.identifier_cutoff

(***************************************************************************)
(* More claims about the parsers, checked under Spec                       *)
(***************************************************************************)
\* the length of the longest prefix of the region, the bytes from the base
\* offset on, whose bytes all equal the first one, when that one is a padding
\* character; 0 for an empty region and for any other first byte
MaximalRun ==
    IF offset >= Len(data) THEN 0
    ELSE IF <<data[offset + 1]>> \notin valid_padding_chars THEN 0
    ELSE CHOOSE n \in 1..(Len(data) - offset) :
             /\ \A i \in 1..n : data[offset + i] = data[offset + 1]
             /\ (n = Len(data) - offset \/ data[offset + n + 1] # data[offset + 1])

\* C26: after PaddingParser.parse, unpacked_size is the length of the longest
\* prefix of the region whose bytes all equal the first byte when that byte is
\* 0x00 or 0xFF, and 0 when the region is empty or starts with another byte;
\* in the latter case parse_from_offset raises UnpackParserException.
C26_PaddingMaximalRun ==
    PaddingParsed =>
        /\ unpacked_size = MaximalRun
        /\ (MaximalRun = 0 /\ Len(calls) = Len(PfoOrder)) =>
               pc = "raised" /\ exc = "UnpackParserException"
        /\ pc = "raised" => MaximalRun = 0

\* a run of padding bytes that ends before the file does, at a base offset
C26_Witness ==
    /\ kind = "padding" /\ pc = "done" /\ offset >= 1
    /\ MaximalRun >= 1 /\ Len(data) - offset > MaximalRun
    /\ unpacked_size = MaximalRun

\* C29: for every base offset and every whence, what OffsetInputFile.seek
\* returns is what tell() gives right afterwards, the new position relative
\* to the base offset, and that position is not negative when the seek did
\* not raise.
C29_SeekReturnsTell ==
    (lastOp.op = "seek" /\ pc # "raised") =>
        /\ lastOp.ret = Tell
        /\ Tell >= 0

\* C28: for every parser class, ExtractedParser and SynthesizingParser built
\* by with_size and ExtractingParser built by with_parts included, whenever
\* parse_from_offset returns without raising, unpacked_size is defined and
\* greater than 0.
C28_ReturnedMeansPositiveSize ==
    /\ pc = "done" => size_set /\ unpacked_size > 0
    /\ vp_pc = "returned" => vp_unpacked_size > 0

(***************************************************************************)
(* Claims about generate_yara, checked under RuleSpec                      *)
(***************************************************************************)
\* C21: for each non-empty group with n identifiers, when n exceeds the
\* group's minimum_present the clause asks for max(n / percentage, matched)
\* matches, written as a number; otherwise it asks for any of the group.
C21_ThresholdClause ==
    rule_written =>
        \A i \in 1..Len(rule_condition) :
            LET c == rule_condition[i]
                n == Cardinality(rule_groups[c.group])
            IN  IF n > rule_heuristics[HKey(c.group, "minimum_present")]
                THEN /\ ~c.any
                     /\ c.num = Max(n \div rule_heuristics[HKey(c.group, "percentage")],
                                    rule_heuristics[HKey(c.group, "matched")])
                ELSE c.any

\* C22: the condition block of every rule written joins its groups with
\* the configured operator: 'or' when operator is or, 'and' when it is and.
C22_ConfiguredOperatorJoins ==
    rule_written =>
        \A i \in 1..Len(rule_condition) :
            rule_condition[i].joiner \in {"none", rule_operator}

\* C27: in every rule written by either generate_yara the condition block
\* has exactly one clause per non-empty group, a joining operator follows a
\* clause if and only if a later non-empty group exists, and no clause names
\* a group without entries.
C27_ConditionWellFormed ==
    rule_written =>
        /\ \A g \in Groups :
               Cardinality({i \in 1..Len(rule_condition) : rule_condition[i].group = g})
                   = IF rule_groups[g] # {} THEN 1 ELSE 0
        /\ \A i \in 1..Len(rule_condition) :
               (rule_condition[i].joiner # "none") <=> (i < Len(rule_condition))

(***************************************************************************)
(* Claim about the rule file names, checked under NameSpec                 *)
(***************************************************************************)
\* C23: each per-file rule is written to <basename>-<sha256>.<rule-ext>,
\* built from the name of the binary and its sha256, so that within one run
\* two binaries with different sha256 are never written to the same file.
C23_RuleFileNamesDistinct ==
    /\ \A i \in 1..Len(nm_writes) :
           \E name \in BinaryNames :
               nm_writes[i].file = name \o "-" \o nm_writes[i].sha256 \o ".yara"
    /\ \A i, j \in 1..Len(nm_writes) :
           nm_writes[i].sha256 # nm_writes[j].sha256
               => nm_writes[i].file # nm_writes[j].file

(***************************************************************************)
(* Claims about yara_from_source.py, checked under AggSpec                 *)
(***************************************************************************)
\* the aggregation loop over the versions has ended
AfterAggregation == ag_pc \in {"union", "intersection", "done", "raised"}

\* C24: an empty identifier set suppresses the rule on every path: the
\* per-file ELF and Dex rules, the per-archive source rule, the union rule and
\* the intersection rule are each written only when at least one of strings,
\* functions and variables is non-empty, and an aggregate whose groups are
\* all empty ends without a rule and without an error.
C24_EmptySetSuppressesRule ==
    /\ generated.called =>
           generated.strings \cup generated.functions \cup generated.variables # {}
    /\ \A i \in 1..Len(ag_rules) : \E g \in Groups : ag_rules[i].groups[g] # {}
    /\ (AfterAggregation /\ \A g \in Groups : ag_union[g] = {}) =>
           /\ ag_pc # "raised"
           /\ \A i \in 1..Len(ag_rules) : ag_rules[i].archive = "archive"

\* the filtered identifier sets of the versions
AllFiltered == {FilteredIdentifiers(ag_env, ag_packages[i]) : i \in 1..Len(ag_packages)}
UnionOf(g) == UNION {ids[g] : ids \in AllFiltered}
IntersectionOf(g) == {x \in UnionOf(g) : \A ids \in AllFiltered : x \in ids[g]}

\* C25: for the versions P1..Pn, n >= 1, after the aggregation loop the
\* groups of the union rule are the union of the filtered identifier sets of
\* all versions and those of the intersection rule are their intersection,
\* also when the set of the first version is empty; the intersection is a
\* subset of the union and the two are equal for n = 1.
C25_UnionAndIntersection ==
    (AfterAggregation /\ Len(ag_packages) >= 1) =>
        /\ \A g \in Groups :
               /\ ag_union[g] = UnionOf(g)
               /\ ag_intersection[g] = IntersectionOf(g)
               /\ ag_intersection[g] \subseteq ag_union[g]
               /\ Len(ag_packages) = 1 => ag_intersection[g] = ag_union[g]
        /\ \A i \in 1..Len(ag_rules) :
               /\ ag_rules[i].archive = "union" =>
                      \A g \in Groups : ag_rules[i].groups[g] = UnionOf(g)
               /\ ag_rules[i].archive = "intersection" =>
                      \A g \in Groups : ag_rules[i].groups[g] = IntersectionOf(g)

\* two versions, the first without functions, both rules written
C25_Witness ==
    /\ ag_pc = "done" /\ Len(ag_packages) = 2
    /\ FilteredIdentifiers(ag_env, ag_packages[1])["functions"] = {}
    /\ ag_union["functions"] # {}
    /\ ag_intersection["functions"] = {}
    /\ \E i, j \in 1..Len(ag_rules) :
           ag_rules[i].archive = "union" /\ ag_rules[j].archive = "intersection"

(***************************************************************************)
(* Claim about unpack_subversion_hash, checked under SvnSpec               *)
(***************************************************************************)
RECURSIVE ValuePairsThenEnd(_, _)
\* the positions of an END line that closes a record whose 'V n' and data
\* pairs start at line i
ValuePairsThenEnd(lines, i) ==
    IF i > Len(lines) THEN {}
    ELSE IF lines[i] = "END" THEN {i}
    ELSE IF MatchesV(lines[i]) /\ i + 1 <= Len(lines)
                /\ Len(lines[i + 1]) = LineLength(lines[i])
         THEN ValuePairsThenEnd(lines, i + 2)
         ELSE {}

\* the positions where a record that starts at line i with its 'K n' line ends
RecordFromK(lines, i) ==
    IF i + 1 <= Len(lines) /\ MatchesK(lines[i])
           /\ Len(lines[i + 1]) = LineLength(lines[i])
    THEN ValuePairsThenEnd(lines, i + 2)
    ELSE {}

\* ... and of a record with its optional file name line
RecordEnds(lines, i) ==
    RecordFromK(lines, i)
        \cup (IF i <= Len(lines) /\ MatchesFilename(lines[i])
              THEN RecordFromK(lines, i + 1) ELSE {})

RECURSIVE RecordsFrom(_, _)
\* the lines from the i-th on are complete records and nothing else
RecordsFrom(lines, i) ==
    \E j \in RecordEnds(lines, i) : j = Len(lines) \/ RecordsFrom(lines, j + 1)

\* C30: unpack_subversion_hash returns status True only if the lines of the
\* file form at least one complete record (an optional file name line, a
\* 'K n' line, a data line of n characters, any number of 'V n' and data line
\* pairs, END) and nothing follows the last END; the length it then reports
\* is the file size.
C30_SubversionHashOnlyRecords ==
    (scan_verifier = "unpack_subversion_hash" /\ scan_result.status = "True") =>
        /\ RecordsFrom(scan_file.lines, 1)
        /\ scan_result.length = SvnFilesize(scan_file)

====
